---- MODULE Spec2Model ----
(***************************************************************************)
(* DrCr reporting engine: graph resolution and scheduling (solve_for in    *)
(* reporting/calculator.rs) and concurrent execution (execute_steps in     *)
(* reporting/executor.rs) over the shared, insertion-ordered product store *)
(* (ReportingProducts in reporting/types.rs).                              *)
(*                                                                         *)
(* Steps are trait objects.  The engine is checked against a small family  *)
(* of step implementations: A, B (requirements drawn from a bounded set),  *)
(* C (a step declaring two product kinds), C1 (a second step whose kinds   *)
(* overlap C's), D (the adapter that copies the dependency product inserted *)
(* last) and the GenerateBalances and UpdateBalancesAt dynamic builders of  *)
(* builders.rs.                                                            *)
(***************************************************************************)
EXTENDS Integers, Sequences, FiniteSets, TLC

\* ---------------------------------------------------------------- bounds
MaxTargets == 2
MaxRequires == 1
MaxPostings == 2
MaxNodes == 3
MaxDate == 2

\* ------------------------------------------------------------ data model
Transactions == "Transactions"
BalancesAt == "BalancesAt"
BalancesBetween == "BalancesBetween"
ReportingProductKind == {Transactions, BalancesAt}

\* The dates of the runs, as days counted from the first
Dates == 0..MaxDate

VoidArgs == "VoidArgs"
\* DateArgs { date }: DateArgs is that of the last date, the date the reports
\* are asked for
DateArgs == "DateArgs"
DateArgsAt(date) == IF date = MaxDate THEN DateArgs ELSE "DateArgs" \o ToString(date)
\* DateStartDateEndArgs { date_start, date_end }
DateStartDateEndArgs(date_start, date_end) ==
    "DateStartDateEndArgs" \o ToString(date_start) \o "_" \o ToString(date_end)
ReportingStepArgs == {VoidArgs, DateArgs}

\* args.is::<DateArgs>() and the field of the downcast args
is_DateArgs(args) == \E d \in Dates : args = DateArgsAt(d)
date(args) == CHOOSE d \in Dates : args = DateArgsAt(d)

\* args.is::<DateStartDateEndArgs>() and the fields of the downcast args
is_DateStartDateEndArgs(args) ==
    \E d, e \in Dates : args = DateStartDateEndArgs(d, e)
date_start(args) == CHOOSE d \in Dates : \E e \in Dates : args = DateStartDateEndArgs(d, e)
date_end(args) == CHOOSE e \in Dates : \E d \in Dates : args = DateStartDateEndArgs(d, e)

ReportingProductId(name, kind, args) == [name |-> name, kind |-> kind, args |-> args]

ReportingStepId(name, product_kinds, args) ==
    [name |-> name, product_kinds |-> product_kinds, args |-> args]

\* A step object: its id() plus the concrete type behind the trait object.
NewStep(impl, name, product_kinds, args) ==
    [impl |-> impl, name |-> name, product_kinds |-> product_kinds, args |-> args]

id(s) == ReportingStepId(s.name, s.product_kinds, s.args)

Dependency(step, dependency) == [step |-> step, dependency |-> dependency]

\* ------------------------------------------------------ step implementations
Impls == {"A", "B", "C", "C1", "D"}

ImplName == [i \in Impls |-> IF i = "C1" THEN "C" ELSE i]

ImplKinds ==
    [i \in Impls |->
        CASE i = "A" -> {Transactions}
          [] i = "B" -> {BalancesAt}
          [] i = "C" -> {Transactions, BalancesAt}
          [] i = "C1" -> {Transactions}
          [] i = "D" -> {BalancesAt}]

\* from_args of a registered step type: the step for the given args
from_args(impl, args) == NewStep(impl, ImplName[impl], ImplKinds[impl], args)

\* takes_args of a registered step type: A and C take any args
\* (steps.rs 80-82), B takes DateArgs only (steps.rs 186-188)
takes_args(impl, args) == impl = "B" => is_DateArgs(args)

\* Whether from_args returns: B's constructor unwraps a downcast of the args
\* to DateArgs (steps.rs 190-194), the others keep the args as they are
downcast_ok(impl, args) == impl = "B" => is_DateArgs(args)

\* The (name, kind) pairs a requires() list may name; args are the step's own.
RequirableProducts ==
    { <<"A", Transactions>>, <<"A", BalancesAt>>, <<"B", BalancesAt>>,
      <<"C", Transactions>>, <<"C", BalancesAt>> }

RECURSIVE SeqsUpTo(_, _)
SeqsUpTo(S, n) ==
    IF n = 0 THEN {<< >>}
    ELSE LET shorter == SeqsUpTo(S, n - 1)
         IN  shorter \cup { Append(q, x) : q \in shorter, x \in S }

NoRepeat(q) == \A i, j \in 1..Len(q) : i # j => q[i] # q[j]

RequiresChoices == { q \in SeqsUpTo(RequirableProducts, MaxRequires) : NoRepeat(q) }

HookChoices == {"none", "each_present", "unconditional"}

VARIABLES
    context,              \* ReportingContext: registries and step behaviours
    targets,              \* the target steps handed to solve_for
    pc,                   \* position of generate_report
    steps,                \* solve_for: steps; execute_steps: the sorted steps
    dependencies,         \* ReportingGraphDependencies.vec
    sorted_step_indexes,  \* solve_for: sorted_step_indexes
    sorted_steps,         \* solve_for: the returned sorted_steps
    steps_remaining,      \* solve_for / execute_steps: steps_remaining
    steps_done,           \* execute_steps: steps_done
    handles,              \* execute_steps: state of each spawned task
    results,              \* what each task's execute computed under the read lock
    new_products,         \* execute_steps: new_products awaiting the write lock
    products,             \* ReportingProducts.map, in insertion order
    dynamic_report,       \* the dynamic report worked on
    previous_report,      \* the report before the last operation on it
    operation,            \* the last operation on the report
    returned,             \* what the last operation returned
    invoked               \* the formulas the last operation invoked, in order

vars == << context, targets, pc, steps, dependencies, sorted_step_indexes,
           sorted_steps, steps_remaining, steps_done, handles, results, new_products,
           products, dynamic_report, previous_report, operation, returned, invoked >>

\* The report variables, which the engine leaves alone
report_vars == << dynamic_report, previous_report, operation, returned, invoked >>

\* ------------------------------------------------------- graph helpers
\* The test used throughout for "this step produces this product"
Produces(sid, p) ==
    /\ sid.name = p.name
    /\ sid.args = p.args
    /\ p.kind \in sid.product_kinds

has_step(stepList, sid) == \E i \in 1..Len(stepList) : id(stepList[i]) = sid

has_producer(stepList, p) == \E i \in 1..Len(stepList) : Produces(id(stepList[i]), p)

\* An add_dependency that pushes the edge whether or not it is present
add_dependency_push(deps, step, dependency) == Append(deps, Dependency(step, dependency))

\* calculator.rs 34-42: the edge is pushed unless an equal edge is present
add_dependency(deps, step, dependency) ==
    IF \E k \in 1..Len(deps) : deps[k].step = step /\ deps[k].dependency = dependency
    THEN deps
    ELSE Append(deps, Dependency(step, dependency))

dependencies_for_step(deps, sid) == SelectSeq(deps, LAMBDA d : d.step = sid)

\* The requirement table of a step: a context may give the steps built at
\* VoidArgs a table of their own (requires() is a method of the step and may
\* look at its args)
requires_table(ctx, s) ==
    IF s.args = VoidArgs /\ "requires_void" \in DOMAIN ctx THEN ctx.requires_void
    ELSE ctx.requires

\* BalancesAtToBalancesBetween::requires: BalancesAt at both time points, the
\* opening balance being the closing balance of the preceding day
BalancesAtToBalancesBetween_requires(s) ==
    << ReportingProductId(s.name, BalancesAt, DateArgsAt(date_start(s.args) - 1)),
       ReportingProductId(s.name, BalancesAt, DateArgsAt(date_end(s.args))) >>

\* requires() of a step: the configured (name, kind) pairs at the step's own args
requires(ctx, s) ==
    IF s.impl = "BalancesAtToBalancesBetween" THEN BalancesAtToBalancesBetween_requires(s)
    ELSE IF s.impl \in DOMAIN requires_table(ctx, s)
    THEN [k \in 1..Len(requires_table(ctx, s)[s.impl]) |->
            ReportingProductId(requires_table(ctx, s)[s.impl][k][1],
                               requires_table(ctx, s)[s.impl][k][2], s.args)]
    ELSE << >>

\* Index of the lookup key found for a product (0: none).  step_lookup_fn is
\* kept in the HashMap's iteration order; find returns the first match.
lookup_key(ctx, p) ==
    LET hits == { k \in 1..Len(ctx.step_lookup_fn) :
                    /\ ImplName[ctx.step_lookup_fn[k]] = p.name
                    /\ p.kind \in ImplKinds[ctx.step_lookup_fn[k]] }
    IN  IF hits = {} THEN 0 ELSE CHOOSE k \in hits : \A h \in hits : k <= h

RECURSIVE has_step_or_can_build(_, _, _, _)
RECURSIVE can_build(_, _, _, _, _, _, _)

has_step_or_can_build(p, stepList, deps, ctx) ==
    IF has_producer(stepList, p)
    THEN [tag |-> "HasStep",
          step |-> stepList[CHOOSE i \in 1..Len(stepList) :
                      /\ Produces(id(stepList[i]), p)
                      /\ \A j \in 1..(i - 1) : ~Produces(id(stepList[j]), p)]]
    ELSE IF lookup_key(ctx, p) # 0
    THEN [tag |-> "CanLookup", impl |-> ctx.step_lookup_fn[lookup_key(ctx, p)]]
    ELSE LET able == { b \in 1..Len(ctx.step_dynamic_builders) :
                         can_build(ctx.step_dynamic_builders[b], p.name, p.kind, p.args,
                                   stepList, deps, ctx) }
         IN  IF able = {} THEN [tag |-> "None"]
             ELSE [tag |-> "CanBuild",
                   builder |-> ctx.step_dynamic_builders[CHOOSE b \in able : \A c \in able : b <= c]]

\* GenerateBalances::can_build: "() -> Transactions" exists for the name, at
\* the requested args or at VoidArgs
GenerateBalances_source_ok(name, tryArgs, args, stepList, deps, ctx) ==
    LET found == has_step_or_can_build(ReportingProductId(name, Transactions, tryArgs),
                                       stepList, deps, ctx)
    IN  CASE found.tag = "HasStep" -> Len(dependencies_for_step(deps, id(found.step))) = 0
          [] found.tag = "CanLookup" -> Len(requires(ctx, from_args(found.impl, args))) = 0
          [] OTHER -> FALSE

\* The first step of the list that has the name and produces Transactions (0:
\* none): steps.iter().find(..) of UpdateBalancesAt, which does not look at
\* the args
parent_step(name, stepList) ==
    LET hits == { i \in 1..Len(stepList) :
                    stepList[i].name = name /\ Transactions \in stepList[i].product_kinds }
    IN  IF hits = {} THEN 0 ELSE CHOOSE i \in hits : \A h \in hits : i <= h

\* UpdateBalancesAt::can_build: "BalancesAt -> Transactions" exists for the
\* name, which is a step with exactly one dependency, of kind BalancesAt, or
\* of kind BalancesBetween when BalancesAt for that dependency's name is
\* there, or can be looked up or built, at the requested date
UpdateBalancesAt_can_build(name, kind, args, stepList, deps, ctx) ==
    /\ is_DateArgs(args)
    /\ kind = BalancesAt
    /\ parent_step(name, stepList) # 0
    /\ LET dependencies_for_parent ==
               dependencies_for_step(deps, id(stepList[parent_step(name, stepList)]))
       IN  /\ Len(dependencies_for_parent) = 1
           /\ \/ dependencies_for_parent[1].dependency.kind = BalancesAt
              \/ /\ dependencies_for_parent[1].dependency.kind = BalancesBetween
                 /\ has_step_or_can_build(
                        ReportingProductId(dependencies_for_parent[1].dependency.name,
                                           BalancesAt, args),
                        stepList, deps, ctx).tag # "None"

\* BalancesAtToBalancesBetween::can_build: BalancesAt for the name is there,
\* or can be looked up or built, at date_start
BalancesAtToBalancesBetween_can_build(name, kind, args, stepList, deps, ctx) ==
    /\ kind = BalancesBetween
    /\ is_DateStartDateEndArgs(args)
    /\ has_step_or_can_build(
           ReportingProductId(name, BalancesAt, DateArgsAt(date_start(args))),
           stepList, deps, ctx).tag # "None"

\* UpdateBalancesBetween::can_build: "BalancesBetween -> Transactions" exists
\* for the name, which is a step with exactly one dependency, of kind
\* BalancesBetween; the args are not looked at
UpdateBalancesBetween_can_build(name, kind, stepList, deps) ==
    /\ kind = BalancesBetween
    /\ parent_step(name, stepList) # 0
    /\ LET dependencies_for_parent ==
               dependencies_for_step(deps, id(stepList[parent_step(name, stepList)]))
       IN  /\ Len(dependencies_for_parent) = 1
           /\ dependencies_for_parent[1].dependency.kind = BalancesBetween

can_build(builder, name, kind, args, stepList, deps, ctx) ==
    CASE builder = "GenerateBalances" ->
            /\ kind = BalancesAt
            /\ \/ GenerateBalances_source_ok(name, args, args, stepList, deps, ctx)
               \/ GenerateBalances_source_ok(name, VoidArgs, args, stepList, deps, ctx)
      [] builder = "UpdateBalancesAt" ->
            UpdateBalancesAt_can_build(name, kind, args, stepList, deps, ctx)
      [] builder = "UpdateBalancesBetween" ->
            UpdateBalancesBetween_can_build(name, kind, stepList, deps)
      [] builder = "BalancesAtToBalancesBetween" ->
            BalancesAtToBalancesBetween_can_build(name, kind, args, stepList, deps, ctx)
      [] OTHER -> FALSE

\* build of a builder: a step of the builder's type that carries the
\* product's name and args and produces BalancesAt, or BalancesBetween for
\* BalancesAtToBalancesBetween
build(builder, name, kind, args) ==
    NewStep(builder, name,
            IF builder = "BalancesAtToBalancesBetween" THEN {BalancesBetween}
            ELSE {BalancesAt},
            args)

\* ------------------------------------------------------------ graph hooks
RECURSIVE add_dependencies(_, _, _)
add_dependencies(deps, sid, prods) ==
    IF prods = << >> THEN deps
    ELSE add_dependencies(add_dependency(deps, sid, Head(prods)), sid, Tail(prods))

\* init_graph of a step that declares its requirements through requires()
init_graph_requires(s, deps, ctx) == add_dependencies(deps, id(s), requires(ctx, s))

\* GenerateBalances::init_graph: one edge onto the name's Transactions
init_graph_GenerateBalances(s, stepList, deps, ctx) ==
    IF has_step_or_can_build(ReportingProductId(s.name, Transactions, s.args),
                             stepList, deps, ctx).tag # "None"
    THEN add_dependency(deps, id(s), ReportingProductId(s.name, Transactions, s.args))
    ELSE add_dependency(deps, id(s), ReportingProductId(s.name, Transactions, VoidArgs))

\* UpdateBalancesAt::init_graph: an edge onto the parent step's Transactions
\* and, when the parent's one dependency is not a BalancesAt, an edge onto the
\* BalancesAt of that dependency's name
init_graph_UpdateBalancesAt(s, stepList, deps) ==
    LET parent == stepList[parent_step(s.name, stepList)]
        with_parent == add_dependency(deps, id(s),
                           ReportingProductId(s.name, Transactions, parent.args))
        dependency == dependencies_for_step(with_parent, id(parent))[1].dependency
    IN  IF dependency.kind = BalancesAt THEN with_parent
        ELSE add_dependency(with_parent, id(s),
                            ReportingProductId(dependency.name, BalancesAt, s.args))

init_graph(s, stepList, deps, ctx) ==
    CASE s.impl = "GenerateBalances" -> init_graph_GenerateBalances(s, stepList, deps, ctx)
      [] s.impl = "UpdateBalancesAt" -> init_graph_UpdateBalancesAt(s, stepList, deps)
      [] OTHER -> init_graph_requires(s, deps, ctx)

\* after_init_graph in the manner of CalculateIncomeTax: every B step present
\* is made to depend on this step's product of B's own kind and args
RECURSIVE after_init_graph_each_present(_, _, _, _)
after_init_graph_each_present(s, stepList, deps, k) ==
    IF k > Len(stepList) THEN deps
    ELSE after_init_graph_each_present(s, stepList,
            IF stepList[k].impl = "B"
            THEN add_dependency(deps, id(stepList[k]),
                                ReportingProductId(s.name, BalancesAt, stepList[k].args))
            ELSE deps,
            k + 1)

\* after_init_graph in the manner of a plugin step: the edge is added for
\* step B at this step's args whether or not that step is in the graph
after_init_graph_unconditional(s, deps) ==
    add_dependency(deps, id(from_args("B", s.args)),
                   ReportingProductId(s.name, Transactions, s.args))

after_init_graph(s, stepList, deps, ctx) ==
    IF s.impl # "A" THEN deps
    ELSE CASE ctx.hook = "each_present" -> after_init_graph_each_present(s, stepList, deps, 1)
           [] ctx.hook = "unconditional" -> after_init_graph_unconditional(s, deps)
           [] OTHER -> deps

\* Push each step of a batch and call its init_graph (calculator.rs 173-177
\* and 254-259); returns the new steps and dependencies
RECURSIVE push_and_init(_, _, _, _)
push_and_init(batch, stepList, deps, ctx) ==
    IF batch = << >> THEN [steps |-> stepList, dependencies |-> deps]
    ELSE LET pushed == Append(stepList, Head(batch))
         IN  push_and_init(Tail(batch), pushed,
                           init_graph(Head(batch), pushed, deps, ctx), ctx)

\* Call after_init_graph on steps[from..] (calculator.rs 180-182 and 262-264)
RECURSIVE after_init_all(_, _, _, _)
after_init_all(from, stepList, deps, ctx) ==
    IF from > Len(stepList) THEN deps
    ELSE after_init_all(from + 1, stepList,
                        after_init_graph(stepList[from], stepList, deps, ctx), ctx)

\* A batch whose steps are each hooked right after their own init_graph, on
\* the step list as it is then
RECURSIVE add_batch_interleaved(_, _, _, _)
add_batch_interleaved(batch, stepList, deps, ctx) ==
    IF batch = << >> THEN [steps |-> stepList, dependencies |-> deps]
    ELSE LET pushed == Append(stepList, Head(batch))
         IN  add_batch_interleaved(Tail(batch), pushed,
                 after_init_graph(Head(batch), pushed,
                                  init_graph(Head(batch), pushed, deps, ctx), ctx),
                 ctx)

add_batch(batch, stepList, deps, ctx) ==
    LET pushed == push_and_init(batch, stepList, deps, ctx)
    IN  [steps |-> pushed.steps,
         dependencies |-> after_init_all(Len(stepList) + 1, pushed.steps,
                                         pushed.dependencies, ctx)]

\* A resolution that hands the edge to the last able builder
resolve_dependency_last_builder(d, stepList, deps, ctx) ==
    IF has_producer(stepList, d.dependency) THEN << >>
    ELSE IF lookup_key(ctx, d.dependency) # 0
    THEN << from_args(ctx.step_lookup_fn[lookup_key(ctx, d.dependency)], d.dependency.args) >>
    ELSE LET able == { b \in 1..Len(ctx.step_dynamic_builders) :
                         can_build(ctx.step_dynamic_builders[b], d.dependency.name,
                                   d.dependency.kind, d.dependency.args, stepList, deps, ctx) }
         IN  IF able = {} THEN << >>
             ELSE << build(ctx.step_dynamic_builders[CHOOSE b \in able : \A c \in able : b >= c],
                           d.dependency.name, d.dependency.kind, d.dependency.args) >>

\* The step constructed for one unresolved dependency edge in a resolution
\* pass, as a sequence of zero or one step (calculator.rs 193-245)
resolve_dependency(d, stepList, deps, ctx) ==
    IF has_producer(stepList, d.dependency) THEN << >>
    ELSE IF lookup_key(ctx, d.dependency) # 0
    THEN << from_args(ctx.step_lookup_fn[lookup_key(ctx, d.dependency)], d.dependency.args) >>
    ELSE LET able == { b \in 1..Len(ctx.step_dynamic_builders) :
                         can_build(ctx.step_dynamic_builders[b], d.dependency.name,
                                   d.dependency.kind, d.dependency.args, stepList, deps, ctx) }
         IN  IF able = {} THEN << >>
             ELSE << build(ctx.step_dynamic_builders[CHOOSE b \in able : \A c \in able : b <= c],
                           d.dependency.name, d.dependency.kind, d.dependency.args) >>

RECURSIVE new_steps_from(_, _, _, _)
new_steps_from(k, stepList, deps, ctx) ==
    IF k > Len(deps) THEN << >>
    ELSE resolve_dependency(deps[k], stepList, deps, ctx)
            \o new_steps_from(k + 1, stepList, deps, ctx)

\* A readiness test that does not look at the product kind
would_be_ready_any_kind(step, stepList, deps, previous_steps) ==
    \A k \in 1..Len(deps) :
        deps[k].step = id(step) =>
            \E j \in 1..Len(previous_steps) :
                /\ stepList[previous_steps[j]].name = deps[k].dependency.name
                /\ stepList[previous_steps[j]].args = deps[k].dependency.args

\* A readiness test that passes over the edges onto the step's own products
would_be_ready_but_for_own(step, stepList, deps, previous_steps) ==
    \A k \in 1..Len(deps) :
        deps[k].step = id(step) =>
            \/ Produces(id(step), deps[k].dependency)
            \/ \E j \in 1..Len(previous_steps) :
                  Produces(id(stepList[previous_steps[j]]), deps[k].dependency)

\* calculator.rs 128-163
would_be_ready_to_execute(step, stepList, deps, previous_steps) ==
    \A k \in 1..Len(deps) :
        deps[k].step = id(step) =>
            \E j \in 1..Len(previous_steps) :
                Produces(id(stepList[previous_steps[j]]), deps[k].dependency)

RemoveAt(q, k) == [j \in 1..(Len(q) - 1) |-> IF j < k THEN q[j] ELSE q[j + 1]]

\* ============================================================ dynamic report
\* The entries of a report.  DynamicReportEntry (src/src) has the variants
\* Section, LiteralRow, CalculatedRow and Spacer; libdrcr splits it into
\* CalculatableDynamicReportEntry (with CalculatableSection besides) and
\* DynamicReportEntry (Section, LiteralRow, Spacer).  One record shape holds
\* every variant; the fields a variant does not have keep a fixed filler.
NoId == "None"
NoFn == [fn |-> "none", arg |-> NoId, id |-> NoId]

Entry(type, entry_id, auto_hide_flag, quantity, entries, calculate_fn) ==
    [type |-> type, id |-> entry_id, auto_hide |-> auto_hide_flag, quantity |-> quantity,
     entries |-> entries, calculate_fn |-> calculate_fn]

CalculatableSection(entry_id, auto_hide_flag, entries) ==
    Entry("CalculatableSection", entry_id, auto_hide_flag, << >>, entries, NoFn)

Section(entry_id, auto_hide_flag, entries) ==
    Entry("Section", entry_id, auto_hide_flag, << >>, entries, NoFn)

LiteralRow(entry_id, auto_hide_flag, quantity) ==
    Entry("LiteralRow", entry_id, auto_hide_flag, quantity, << >>, NoFn)

CalculatedRow(calculate_fn) == Entry("CalculatedRow", NoId, FALSE, << >>, << >>, calculate_fn)

Spacer == Entry("Spacer", NoId, FALSE, << >>, << >>, NoFn)

\* Option and panic: what a call gives back
None == [tag |-> "None", value |-> Spacer]
Some(v) == [tag |-> "Some", value |-> v]
Panic == [tag |-> "Panic", value |-> Spacer]

\* A report: the revision of the code it belongs to ("src" for src/src,
\* "libdrcr" for src/libdrcr), the struct it is (DynamicReport in src;
\* CalculatableDynamicReport, and DynamicReport once calculated, in libdrcr),
\* its columns, its entries
Report(revision, struct, columns, entries) ==
    [revision |-> revision, struct |-> struct, columns |-> columns, entries |-> entries]

\* ------------------------------------------------------------ the inputs
\* All lists of entries with n nodes in all, built from the given rows (the
\* entries without children) and section heads
RECURSIVE TreesOfSize(_, _, _)
RECURSIVE ForestsOfSize(_, _, _)

TreesOfSize(rows, heads, n) ==
    IF n = 1 THEN rows \cup heads
    ELSE { [h EXCEPT !.entries = f] : h \in heads, f \in ForestsOfSize(rows, heads, n - 1) }

ForestsOfSize(rows, heads, n) ==
    IF n = 0 THEN { << >> }
    ELSE UNION { { <<t>> \o f : t \in TreesOfSize(rows, heads, k),
                                f \in ForestsOfSize(rows, heads, n - k) } : k \in 1..n }

Forests(rows, heads) == UNION { ForestsOfSize(rows, heads, n) : n \in 1..MaxNodes }

\* The variants an entries list of each type may hold
RECURSIVE WellTyped(_, _)
WellTyped(entries, allowed) ==
    \A k \in 1..Len(entries) :
        /\ entries[k].type \in allowed
        /\ CASE entries[k].type = "CalculatableSection" ->
                    WellTyped(entries[k].entries, allowed)
             [] entries[k].type = "Section" ->
                    WellTyped(entries[k].entries,
                              IF "CalculatableSection" \in allowed
                              THEN {"Section", "LiteralRow", "Spacer"} ELSE allowed)
             [] OTHER -> TRUE

CalculatableDynamicReportEntry ==
    {"CalculatableSection", "Section", "LiteralRow", "CalculatedRow", "Spacer"}

DynamicReportEntry == {"Section", "LiteralRow", "CalculatedRow", "Spacer"}

\* A row hidden as soon as one column is zero
can_auto_hide_any(row) ==
    row.auto_hide /\ \E c \in 1..Len(row.quantity) : row.quantity[c] = 0

\* ---------------------------------------------------------------- auto_hide
\* LiteralRow::can_auto_hide
can_auto_hide(row) ==
    row.auto_hide /\ \A c \in 1..Len(row.quantity) : row.quantity[c] = 0

\* A section hidden whenever its flag is set
can_auto_hide_self_flag_only(section) == section.auto_hide

\* Section::can_auto_hide_self (libdrcr's has no CalculatedRow arm)
RECURSIVE can_auto_hide_self(_)
can_auto_hide_self(section) ==
    /\ section.auto_hide
    /\ \A k \in 1..Len(section.entries) :
          LET e == section.entries[k]
          IN  CASE e.type = "Section" -> can_auto_hide_self(e)
                [] e.type = "LiteralRow" -> can_auto_hide(e)
                [] e.type = "CalculatedRow" -> FALSE
                [] e.type = "Spacer" -> TRUE

\* A section whose children are never hidden
auto_hide_children_none(section) == section

\* A section that hides its Spacers with its rows
RECURSIVE auto_hide_children_and_spacers(_)
auto_hide_children_and_spacers(section) ==
    LET hidden == [k \in 1..Len(section.entries) |->
                      IF section.entries[k].type = "Section"
                      THEN auto_hide_children_and_spacers(section.entries[k])
                      ELSE section.entries[k]]
        retain(e) == CASE e.type = "Section" -> ~can_auto_hide_self(e)
                       [] e.type = "LiteralRow" -> ~can_auto_hide(e)
                       [] e.type = "CalculatedRow" -> TRUE
                       [] e.type = "Spacer" -> FALSE
    IN  [section EXCEPT !.entries = SelectSeq(hidden, retain)]

\* A section that hides its own rows and sections but does not descend into
\* the sections it holds
auto_hide_children_one_level(section) ==
    LET retain(e) == CASE e.type = "Section" -> ~can_auto_hide_self(e)
                       [] e.type = "LiteralRow" -> ~can_auto_hide(e)
                       [] e.type = "CalculatedRow" -> TRUE
                       [] e.type = "Spacer" -> TRUE
    IN  [section EXCEPT !.entries = SelectSeq(section.entries, retain)]

\* Section::auto_hide_children: retain, after auto-hiding the children of
\* each Section met, the entries that cannot be hidden
RECURSIVE auto_hide_children(_)
auto_hide_children(section) ==
    LET hidden == [k \in 1..Len(section.entries) |->
                      IF section.entries[k].type = "Section"
                      THEN auto_hide_children(section.entries[k])
                      ELSE section.entries[k]]
        retain(e) == CASE e.type = "Section" -> ~can_auto_hide_self(e)
                       [] e.type = "LiteralRow" -> ~can_auto_hide(e)
                       [] e.type = "CalculatedRow" -> TRUE
                       [] e.type = "Spacer" -> TRUE
    IN  [section EXCEPT !.entries = SelectSeq(hidden, retain)]

\* DynamicReport::auto_hide
auto_hide(report) ==
    LET hidden == [k \in 1..Len(report.entries) |->
                      IF report.entries[k].type = "Section"
                      THEN auto_hide_children(report.entries[k])
                      ELSE report.entries[k]]
        retain(e) == CASE e.type = "Section" -> ~can_auto_hide_self(e)
                       [] e.type = "LiteralRow" -> ~can_auto_hide(e)
                       [] e.type = "CalculatedRow" -> TRUE
                       [] e.type = "Spacer" -> TRUE
    IN  [report EXCEPT !.entries = SelectSeq(hidden, retain)]

\* ------------------------------------------------------------------- by_id
\* Section::by_id (libdrcr's has no CalculatedRow arm): the entries in order,
\* a Section before the entries it holds
RECURSIVE Section_by_id(_, _)
Section_by_id(section, wanted) ==
    LET RECURSIVE from(_)
        from(k) ==
            IF k > Len(section.entries) THEN None
            ELSE LET entry == section.entries[k]
                 IN  CASE entry.type = "Section" ->
                            IF entry.id = wanted THEN Some(entry)
                            ELSE LET e == Section_by_id(entry, wanted)
                                 IN  IF e.tag # "None" THEN e ELSE from(k + 1)
                       [] entry.type = "LiteralRow" ->
                            IF entry.id = wanted THEN Some(entry) ELSE from(k + 1)
                       [] entry.type = "CalculatedRow" -> from(k + 1)
                       [] entry.type = "Spacer" -> from(k + 1)
    IN  from(1)

\* CalculatableSection::by_id; the arm for a Section is todo!()
RECURSIVE CalculatableSection_by_id(_, _)
CalculatableSection_by_id(section, wanted) ==
    LET RECURSIVE from(_)
        from(k) ==
            IF k > Len(section.entries) THEN None
            ELSE LET entry == section.entries[k]
                 IN  CASE entry.type = "CalculatableSection" ->
                            IF entry.id = wanted THEN Some(entry)
                            ELSE LET e == CalculatableSection_by_id(entry, wanted)
                                 IN  IF e.tag # "None" THEN e ELSE from(k + 1)
                       [] entry.type = "Section" -> Panic
                       [] entry.type = "LiteralRow" ->
                            IF entry.id = wanted THEN Some(entry) ELSE from(k + 1)
                       [] entry.type = "CalculatedRow" -> from(k + 1)
                       [] entry.type = "Spacer" -> from(k + 1)
    IN  from(1)

\* CalculatableDynamicReport::by_id
by_id(report, wanted) ==
    LET RECURSIVE from(_)
        from(k) ==
            IF k > Len(report.entries) THEN None
            ELSE LET entry == report.entries[k]
                 IN  CASE entry.type = "CalculatableSection" ->
                            IF entry.id = wanted THEN Some(entry)
                            ELSE LET e == CalculatableSection_by_id(entry, wanted)
                                 IN  IF e.tag # "None" THEN e ELSE from(k + 1)
                       [] entry.type = "Section" ->
                            IF entry.id = wanted THEN Some(entry)
                            ELSE LET e == Section_by_id(entry, wanted)
                                 IN  IF e.tag # "None" THEN e ELSE from(k + 1)
                       [] entry.type = "LiteralRow" ->
                            IF entry.id = wanted THEN Some(entry) ELSE from(k + 1)
                       [] entry.type = "CalculatedRow" -> from(k + 1)
                       [] entry.type = "Spacer" -> from(k + 1)
    IN  from(1)

\* DynamicReport::by_id (src/src)
DynamicReport_by_id(report, wanted) ==
    LET RECURSIVE from(_)
        from(k) ==
            IF k > Len(report.entries) THEN None
            ELSE LET entry == report.entries[k]
                 IN  CASE entry.type = "Section" ->
                            IF entry.id = wanted THEN Some(entry)
                            ELSE LET e == Section_by_id(entry, wanted)
                                 IN  IF e.tag # "None" THEN e ELSE from(k + 1)
                       [] entry.type = "LiteralRow" ->
                            IF entry.id = wanted THEN Some(entry) ELSE from(k + 1)
                       [] entry.type = "CalculatedRow" -> from(k + 1)
                       [] entry.type = "Spacer" -> from(k + 1)
    IN  from(1)

\* An addition that keeps only the last quantity added
add_to_subtotals_last(subtotals, quantity) ==
    IF Len(quantity) > Len(subtotals) THEN Panic
    ELSE Some([c \in 1..Len(subtotals) |->
                  IF c <= Len(quantity) THEN quantity[c] ELSE subtotals[c]])

\* ---------------------------------------------------------------- subtotal
\* subtotals[col_idx] += quantity for each value of a row, or of a nested
\* section's subtotals; a value beyond the report's columns is an index out
\* of bounds
add_to_subtotals(subtotals, quantity) ==
    IF Len(quantity) > Len(subtotals) THEN Panic
    ELSE Some([c \in 1..Len(subtotals) |->
                  subtotals[c] + (IF c <= Len(quantity) THEN quantity[c] ELSE 0)])

\* Section::subtotal (libdrcr's has no CalculatedRow arm)
RECURSIVE Section_subtotal(_, _)
Section_subtotal(section, report) ==
    LET RECURSIVE from(_, _)
        from(k, subtotals) ==
            IF subtotals.tag = "Panic" THEN Panic
            ELSE IF k > Len(section.entries) THEN subtotals
            ELSE LET entry == section.entries[k]
                 IN  CASE entry.type = "Section" ->
                            LET nested == Section_subtotal(entry, report)
                            IN  IF nested.tag = "Panic" THEN Panic
                                ELSE from(k + 1, add_to_subtotals(subtotals.value, nested.value))
                       [] entry.type = "LiteralRow" ->
                            from(k + 1, add_to_subtotals(subtotals.value, entry.quantity))
                       [] entry.type = "CalculatedRow" -> from(k + 1, subtotals)
                       [] entry.type = "Spacer" -> from(k + 1, subtotals)
    IN  from(1, Some([c \in 1..Len(report.columns) |-> 0]))

\* CalculatableSection::subtotal
RECURSIVE CalculatableSection_subtotal(_, _)
CalculatableSection_subtotal(section, report) ==
    LET RECURSIVE from(_, _)
        from(k, subtotals) ==
            IF subtotals.tag = "Panic" THEN Panic
            ELSE IF k > Len(section.entries) THEN subtotals
            ELSE LET entry == section.entries[k]
                 IN  CASE entry.type = "CalculatableSection" ->
                            LET nested == CalculatableSection_subtotal(entry, report)
                            IN  IF nested.tag = "Panic" THEN Panic
                                ELSE from(k + 1, add_to_subtotals(subtotals.value, nested.value))
                       [] entry.type = "Section" ->
                            LET nested == Section_subtotal(entry, report)
                            IN  IF nested.tag = "Panic" THEN Panic
                                ELSE from(k + 1, add_to_subtotals(subtotals.value, nested.value))
                       [] entry.type = "LiteralRow" ->
                            from(k + 1, add_to_subtotals(subtotals.value, entry.quantity))
                       [] entry.type = "CalculatedRow" -> from(k + 1, subtotals)
                       [] entry.type = "Spacer" -> from(k + 1, subtotals)
    IN  from(1, Some([c \in 1..Len(report.columns) |-> 0]))

\* CalculatableDynamicReport::subtotal_for_id
subtotal_for_id(report, wanted) ==
    LET entry == by_id(report, wanted)
    IN  CASE entry.tag = "Panic" -> Panic
          [] entry.tag = "None" -> None
          [] OTHER -> IF entry.value.type = "CalculatableSection"
                      THEN CalculatableSection_subtotal(entry.value, report)
                      ELSE Panic

\* CalculatableDynamicReport::quantity_for_id
quantity_for_id(report, wanted) ==
    LET entry == by_id(report, wanted)
    IN  CASE entry.tag = "Panic" -> Panic
          [] entry.tag = "None" -> None
          [] OTHER -> IF entry.value.type = "LiteralRow"
                      THEN Some(entry.value.quantity)
                      ELSE Panic

\* DynamicReport::subtotal_for_id (src/src)
DynamicReport_subtotal_for_id(report, wanted) ==
    LET entry == DynamicReport_by_id(report, wanted)
    IN  IF entry.tag = "Some" /\ entry.value.type = "Section"
        THEN Section_subtotal(entry.value, report)
        ELSE Panic

\* ---------------------------------------------------------------- calculate
\* CalculatedRow::calculate: calculate_fn applied to the report.  The
\* formulas are those of the tax summary report: the total row of a section,
\* LiteralRow { quantity: report.subtotal_for_id(arg).unwrap(), id, auto_hide:
\* true }, and the row that copies the first column of another row,
\* LiteralRow { quantity: vec![report.quantity_for_id(arg).map(|v|
\* v[0]).unwrap_or(0)], id, auto_hide: false }
\* The LiteralRow a formula builds from what its lookup gave; unwrap() of
\* None, v[0] of an empty quantity and a panic inside the lookup all panic
literal_row_of(f, found) ==
    CASE found.tag = "Panic" -> Panic
      [] f.fn = "subtotal_for_id" ->
            IF found.tag = "Some" THEN Some(LiteralRow(f.id, TRUE, found.value)) ELSE Panic
      [] f.fn = "quantity_for_id" ->
            IF found.tag = "None" THEN Some(LiteralRow(f.id, FALSE, <<0>>))
            ELSE IF Len(found.value) = 0 THEN Panic
            ELSE Some(LiteralRow(f.id, FALSE, <<found.value[1]>>))

\* What a calculation gave, with the formulas it invoked, in order
Calculated(result, calls) ==
    [tag |-> result.tag, value |-> result.value, calls |-> calls]

\* An entry passed on as it is: no formula is invoked
Kept(entry) == Calculated(Some(entry), << >>)

\* A row whose formula is invoked again once it has built the row
CalculatedRow_calculate_twice(row, report) ==
    Calculated(literal_row_of(row.calculate_fn,
                   CASE row.calculate_fn.fn = "subtotal_for_id" ->
                            IF report.revision = "libdrcr"
                            THEN subtotal_for_id(report, row.calculate_fn.arg)
                            ELSE DynamicReport_subtotal_for_id(report, row.calculate_fn.arg)
                     [] row.calculate_fn.fn = "quantity_for_id" ->
                            quantity_for_id(report, row.calculate_fn.arg)),
               << row.calculate_fn, row.calculate_fn >>)

\* (self.calculate_fn)(report): one invocation of the formula
CalculatedRow_calculate(row, report) ==
    Calculated(literal_row_of(row.calculate_fn,
                   CASE row.calculate_fn.fn = "subtotal_for_id" ->
                            IF report.revision = "libdrcr"
                            THEN subtotal_for_id(report, row.calculate_fn.arg)
                            ELSE DynamicReport_subtotal_for_id(report, row.calculate_fn.arg)
                     [] row.calculate_fn.fn = "quantity_for_id" ->
                            quantity_for_id(report, row.calculate_fn.arg)),
               << row.calculate_fn >>)

\* calculated_entries.push(updated), unless the calculation panicked
push(calculated_entries, updated) ==
    Calculated(IF updated.tag = "Panic" THEN Panic
               ELSE Some(Append(calculated_entries.value, updated.value)),
               calculated_entries.calls \o updated.calls)

\* *entry_mut = updated, unless the calculation panicked
replace(self, entry_idx, updated) ==
    Calculated(IF updated.tag = "Panic" THEN Panic
               ELSE Some([self.value EXCEPT !.entries[entry_idx] = updated.value]),
               self.calls \o updated.calls)

\* The Section or report made of the calculated entries
with_entries(self, calculated_entries) ==
    Calculated(IF calculated_entries.tag = "Panic" THEN Panic
               ELSE Some([self EXCEPT !.entries = calculated_entries.value]),
               calculated_entries.calls)

\* CalculatableSection::calculate, on a clone of the section: the report the
\* formulas see still holds the section as it was
RECURSIVE CalculatableSection_calculate(_, _)
CalculatableSection_calculate(section, report) ==
    LET RECURSIVE from(_, _)
        from(k, calculated_entries) ==
            IF calculated_entries.tag = "Panic" \/ k > Len(section.entries)
            THEN calculated_entries
            ELSE from(k + 1,
                      push(calculated_entries,
                           CASE section.entries[k].type = "CalculatableSection" ->
                                    CalculatableSection_calculate(section.entries[k], report)
                             [] section.entries[k].type = "CalculatedRow" ->
                                    CalculatedRow_calculate(section.entries[k], report)
                             [] section.entries[k].type \in {"Section", "LiteralRow", "Spacer"} ->
                                    Kept(section.entries[k])))
    IN  with_entries(Section(section.id, section.auto_hide, << >>), from(1, Kept(<< >>)))

\* The DynamicReport that CalculatableDynamicReport::calculate returns
into_DynamicReport(self) ==
    Calculated(IF self.tag = "Panic" THEN Panic
               ELSE Some(Report("libdrcr", "DynamicReport", self.value.columns,
                                self.value.entries)),
               self.calls)

\* A calculate that hands the entries back as they are
calculate_kept(report) ==
    Kept(Report("libdrcr", "DynamicReport", report.columns, report.entries))

\* CalculatableDynamicReport::calculate: each entry calculated is also
\* replaced in self.entries, where the formulas of the entries after it find
\* it; calculated_entries ends as the entries self then holds
calculate(report) ==
    LET RECURSIVE from(_, _)
        from(k, self) ==
            IF self.tag = "Panic" \/ k > Len(report.entries) THEN self
            ELSE from(k + 1,
                      replace(self, k,
                              CASE report.entries[k].type = "CalculatableSection" ->
                                       CalculatableSection_calculate(report.entries[k], self.value)
                                [] report.entries[k].type = "CalculatedRow" ->
                                       CalculatedRow_calculate(report.entries[k], self.value)
                                [] report.entries[k].type \in {"Section", "LiteralRow", "Spacer"} ->
                                       Kept(report.entries[k])))
    IN  into_DynamicReport(from(1, Kept(report)))

\* Section::calculate (src/src), on a clone of the section
RECURSIVE Section_calculate(_, _)
Section_calculate(section, report) ==
    LET RECURSIVE from(_, _)
        from(k, self) ==
            IF self.tag = "Panic" \/ k > Len(section.entries) THEN self
            ELSE from(k + 1,
                      replace(self, k,
                              CASE section.entries[k].type = "Section" ->
                                       Section_calculate(section.entries[k], report)
                                [] section.entries[k].type = "CalculatedRow" ->
                                       CalculatedRow_calculate(section.entries[k], report)
                                [] section.entries[k].type \in {"LiteralRow", "Spacer"} ->
                                       Kept(section.entries[k])))
    IN  from(1, Kept(section))

\* A calculate that loses the entries
DynamicReport_calculate_emptied(report) == Kept([report EXCEPT !.entries = << >>])

\* DynamicReport::calculate (src/src): in place
DynamicReport_calculate(report) ==
    LET RECURSIVE from(_, _)
        from(k, self) ==
            IF self.tag = "Panic" \/ k > Len(report.entries) THEN self
            ELSE from(k + 1,
                      replace(self, k,
                              CASE report.entries[k].type = "Section" ->
                                       Section_calculate(report.entries[k], self.value)
                                [] report.entries[k].type = "CalculatedRow" ->
                                       CalculatedRow_calculate(report.entries[k], self.value)
                                [] report.entries[k].type \in {"LiteralRow", "Spacer"} ->
                                       Kept(report.entries[k])))
    IN  from(1, Kept(report))

\* ------------------------------------------------------------- the reports
Columns1 == <<"$">>
Columns2 == <<"$", "%">>

\* Reports for auto-hiding: rows and sections with the flag set or not, rows
\* zero in every column or not, over two columns
AutoHideRows ==
    { LiteralRow(NoId, TRUE, <<0, 0>>), LiteralRow(NoId, TRUE, <<0, 1>>),
      LiteralRow(NoId, FALSE, <<0, 0>>), Spacer,
      CalculatedRow([fn |-> "subtotal_for_id", arg |-> "a", id |-> NoId]) }

AutoHideSections == { Section(NoId, TRUE, << >>), Section(NoId, FALSE, << >>) }

\* Reports for lookups: two rows and sections that share the id "a", sections
\* with the id "b", pending rows
LookupRows ==
    { LiteralRow("a", FALSE, <<1>>), LiteralRow("a", FALSE, <<2>>),
      CalculatedRow([fn |-> "subtotal_for_id", arg |-> "b", id |-> "a"]) }

LookupSections == { Section("a", FALSE, << >>), Section("b", FALSE, << >>) }

LookupCalculatableSections ==
    { CalculatableSection("a", FALSE, << >>), CalculatableSection("b", FALSE, << >>) }

\* Reports for subtotals: rows over two columns
SubtotalRows ==
    { LiteralRow(NoId, FALSE, <<10, 1>>), LiteralRow(NoId, FALSE, <<-3, 0>>),
      LiteralRow(NoId, FALSE, <<5, 2>>), Spacer,
      CalculatedRow([fn |-> "subtotal_for_id", arg |-> "a", id |-> NoId]) }

\* A row with one value more than the report has columns
LongRow == LiteralRow(NoId, FALSE, <<5, 2, 7>>)

\* Reports for calculation: the total row of section "a", which takes the id
\* "t", and the row copying the first column of row "t"
CalculateRows ==
    { LiteralRow(NoId, TRUE, <<1>>),
      CalculatedRow([fn |-> "subtotal_for_id", arg |-> "a", id |-> "t"]),
      CalculatedRow([fn |-> "quantity_for_id", arg |-> "t", id |-> NoId]) }

SrcCalculateRows ==
    { LiteralRow(NoId, TRUE, <<1>>),
      CalculatedRow([fn |-> "subtotal_for_id", arg |-> "a", id |-> "t"]) }

\* The reports of the subtotal example: a section holding two rows, a spacer
\* or a pending row, and a nested section with one row
SubtotalLiteralRows == { r \in SubtotalRows : r.type = "LiteralRow" }

SubtotalExamples(section_type) ==
    { << Entry(section_type, "a", FALSE, << >>,
               << r1, r2, x, Section(NoId, FALSE, << r3 >>) >>, NoFn) >> :
        r1 \in SubtotalLiteralRows, r2 \in SubtotalLiteralRows, r3 \in SubtotalLiteralRows,
        x \in SubtotalRows \ SubtotalLiteralRows }

\* The reports of the total example: section "a" holding a row and its total
\* row "t", with the row copying the first column of row "t" after the
\* section, as the tax summary report has it, or inside the section after
\* the total row
TotalExamples ==
    { << CalculatableSection("a", TRUE,
             << LiteralRow(NoId, TRUE, <<1>>),
                CalculatedRow([fn |-> "subtotal_for_id", arg |-> "a", id |-> "t"]) >>),
         CalculatedRow([fn |-> "quantity_for_id", arg |-> "t", id |-> NoId]) >>,
      << CalculatableSection("a", TRUE,
             << LiteralRow(NoId, TRUE, <<1>>),
                CalculatedRow([fn |-> "subtotal_for_id", arg |-> "a", id |-> "t"]),
                CalculatedRow([fn |-> "quantity_for_id", arg |-> "t", id |-> NoId]) >>) >> }

SrcReports ==
    { Report("src", "DynamicReport", Columns2, f) :
        f \in Forests(AutoHideRows, AutoHideSections) }
    \cup { Report("src", "DynamicReport", Columns1, f) :
        f \in Forests(LookupRows, LookupSections) }
    \cup { Report("src", "DynamicReport", Columns2, f) :
        f \in Forests(SubtotalRows \cup {LongRow}, {Section("a", FALSE, << >>)})
                \cup SubtotalExamples("Section") }
    \cup { Report("src", "DynamicReport", Columns1, f) :
        f \in Forests(SrcCalculateRows, {Section("a", TRUE, << >>)}) }

LibdrcrReports ==
    { Report("libdrcr", "CalculatableDynamicReport", Columns1, f) :
        f \in { g \in Forests(LookupRows, LookupSections \cup LookupCalculatableSections) :
                  WellTyped(g, CalculatableDynamicReportEntry) } }
    \cup { Report("libdrcr", "CalculatableDynamicReport", Columns2, f) :
        f \in { g \in Forests(SubtotalRows \cup {LongRow},
                            {Section("a", FALSE, << >>),
                             CalculatableSection("a", FALSE, << >>)}) :
                  WellTyped(g, CalculatableDynamicReportEntry) }
                \cup SubtotalExamples("CalculatableSection") }
    \cup { Report("libdrcr", "CalculatableDynamicReport", Columns1, f) :
        f \in Forests(CalculateRows, {CalculatableSection("a", TRUE, << >>)})
                \cup TotalExamples }
    \cup { Report("libdrcr", "DynamicReport", Columns2, f) :
        f \in { g \in Forests(AutoHideRows, AutoHideSections) :
                  WellTyped(g, {"Section", "LiteralRow", "Spacer"}) } }

Reports == SrcReports \cup LibdrcrReports

\* ------------------------------------------------------- report operations
\* What an operation that returns nothing leaves in returned
Done == [tag |-> "Done", value |-> Spacer]

Operation(name, wanted, index) == [name |-> name, id |-> wanted, index |-> index]

\* The ids looked up
Ids == {"a", "b"}

\* No engine run is under way while a report is worked on, and no report
\* while the engine runs
NoReport == Report("src", "DynamicReport", << >>, << >>)

\* The engine's runs work on no report
ReportIdle ==
    /\ dynamic_report = NoReport
    /\ previous_report = NoReport
    /\ operation = Operation("none", NoId, 0)
    /\ returned = Done
    /\ invoked = << >>

\* ------------------------------------------------------------------ Init
\* The registered lookup keys in the HashMap's iteration order.  The key
\* ("C", [Transactions]) of C1 may be registered too; it is then the key that
\* keys().find() meets first for C's Transactions (met second, it is never
\* returned, which is the registry without it).
LookupOrders == { <<"A", "B", "C">>, <<"A", "B", "C1", "C">> }

\* register_dynamic_builders
step_dynamic_builders == <<"GenerateBalances">>

\* Posting (account, quantity) and the transaction lists a step may return:
\* a list of transactions, each dated and holding a list of postings,
\* MaxPostings postings in all
Accounts == {"X", "Y"}
Quantities == {500, -500}
Posting == [account : Accounts, quantity : Quantities]

\* TransactionWithPostings { transaction: Transaction { dt, .. }, postings }
TransactionWithPostings(dt, postings) == [dt |-> dt, postings |-> postings]

RECURSIVE CountPostings(_)
CountPostings(transactions) ==
    IF transactions = << >> THEN 0
    ELSE Len(Head(transactions).postings) + CountPostings(Tail(transactions))

\* The lists of at most len transactions holding at most budget postings in
\* all, every transaction dated on the first date
RECURSIVE TransactionListsWithin(_, _)
TransactionListsWithin(len, budget) ==
    IF len = 0 THEN { << >> }
    ELSE { << >> }
         \cup UNION { { << TransactionWithPostings(0, t) >> \o rest :
                          rest \in TransactionListsWithin(len - 1, budget - Len(t)) } :
                      t \in SeqsUpTo(Posting, budget) }

TransactionLists == TransactionListsWithin(MaxPostings, MaxPostings)

\* The transaction list of the engine runs that do not vary it
TransactionsXY ==
    << TransactionWithPostings(0, << [account |-> "X", quantity |-> 500],
                                     [account |-> "Y", quantity |-> -500] >>) >>

\* The kinds step C returns products for (a subset of its declared kinds)
ReturnChoices == { <<Transactions, BalancesAt>>, <<Transactions>>, <<BalancesAt>> }

Contexts ==
    { c \in [ step_lookup_fn : LookupOrders,
              step_dynamic_builders : {step_dynamic_builders},
              \* step A declares up to MaxRequires dependencies, step B up to one
              requires : { r \in [{"A", "B"} -> RequiresChoices] : Len(r["B"]) <= 1 },
              hook : HookChoices,
              returns : ReturnChoices,
              transactions : {TransactionsXY} ] :
        \* the two variations of C are taken one at a time
        (\E k \in 1..Len(c.step_lookup_fn) : c.step_lookup_fn[k] = "C1")
            => c.returns = <<Transactions, BalancesAt>> }

TargetLists ==
    { t \in SeqsUpTo({ from_args(i, DateArgs) : i \in {"A", "B", "C"} }, MaxTargets) :
        t # << >> /\ NoRepeat(t) }

NoTask == [status |-> "NotRun", products |-> << >>]

Init ==
    /\ context \in Contexts
    /\ targets \in TargetLists
    /\ pc = "solve_for"
    /\ steps = << >>
    /\ dependencies = << >>
    /\ sorted_step_indexes = << >>
    /\ sorted_steps = << >>
    /\ steps_remaining = << >>
    /\ steps_done = << >>
    /\ handles = << >>
    /\ results = << >>
    /\ new_products = << >>
    /\ products = << >>
    /\ ReportIdle

exec_vars == << steps_done, handles, results, new_products, products >>

\* --------------------------------------------------------------- solve_for
\* calculator.rs 169-182: seed the graph with the targets
InitTargets ==
    /\ pc = "solve_for"
    /\ LET g == add_batch(targets, << >>, << >>, context)
       IN  /\ steps' = g.steps
           /\ dependencies' = g.dependencies
    /\ pc' = "resolve"
    /\ UNCHANGED << report_vars, context, targets, sorted_step_indexes, sorted_steps, steps_remaining,
                    exec_vars >>

\* The panic the edges from k on run into first in a pass, if any: todo!() at
\* line 191 for an edge whose step is absent, the constructor's unwrap for an
\* unresolved edge whose lookup factory is called at line 204 on args it
\* cannot downcast
RECURSIVE first_panic(_, _, _, _)
first_panic(k, stepList, deps, ctx) ==
    IF k > Len(deps) THEN "none"
    ELSE IF ~has_step(stepList, deps[k].step) THEN "todo"
    ELSE IF /\ ~has_producer(stepList, deps[k].dependency)
            /\ lookup_key(ctx, deps[k].dependency) # 0
            /\ ~downcast_ok(ctx.step_lookup_fn[lookup_key(ctx, deps[k].dependency)],
                            deps[k].dependency.args)
    THEN "unwrap"
    ELSE first_panic(k + 1, stepList, deps, ctx)

\* A loop that is left after the first pass, whether or not it added steps
ResolvePass_once ==
    /\ pc = "resolve"
    /\ IF first_panic(1, steps, dependencies, context) # "none"
       THEN /\ pc' = IF first_panic(1, steps, dependencies, context) = "todo"
                     THEN "panic" ELSE "unwrap_panic"
            /\ UNCHANGED << steps, dependencies >>
       ELSE LET g == add_batch(new_steps_from(1, steps, dependencies, context),
                               steps, dependencies, context)
            IN  /\ steps' = g.steps
                /\ dependencies' = g.dependencies
                /\ pc' = "validate"
    /\ UNCHANGED << report_vars, context, targets, sorted_step_indexes, sorted_steps, steps_remaining,
                    exec_vars >>

\* calculator.rs 185-265: one pass of the resolution loop
ResolvePass ==
    /\ pc = "resolve"
    /\ IF first_panic(1, steps, dependencies, context) # "none"
       THEN /\ pc' = IF first_panic(1, steps, dependencies, context) = "todo"
                     THEN "panic" ELSE "unwrap_panic"
            /\ UNCHANGED << steps, dependencies >>
       ELSE LET new_steps == new_steps_from(1, steps, dependencies, context)
            IN  IF Len(new_steps) = 0
                THEN /\ pc' = "validate"
                     /\ UNCHANGED << steps, dependencies >>
                ELSE LET g == add_batch(new_steps, steps, dependencies, context)
                     IN  /\ steps' = g.steps
                         /\ dependencies' = g.dependencies
                         /\ pc' = "resolve"
    /\ UNCHANGED << report_vars, context, targets, sorted_step_indexes, sorted_steps, steps_remaining,
                    exec_vars >>

\* A validation that looks only for edges whose step is absent
RECURSIVE check_step_only(_, _, _)
check_step_only(k, stepList, deps) ==
    IF k > Len(deps) THEN "ok"
    ELSE IF ~has_step(stepList, deps[k].step) THEN "UnknownStep"
    ELSE check_step_only(k + 1, stepList, deps)

\* The error of the first failing edge, or "ok" (calculator.rs 268-289)
RECURSIVE check_dependencies(_, _, _)
check_dependencies(k, stepList, deps) ==
    IF k > Len(deps) THEN "ok"
    ELSE IF ~has_step(stepList, deps[k].step) THEN "UnknownStep"
    ELSE IF ~has_producer(stepList, deps[k].dependency) THEN "NoStepForProduct"
    ELSE check_dependencies(k + 1, stepList, deps)

Validate ==
    /\ pc = "validate"
    /\ LET verdict == check_dependencies(1, steps, dependencies)
       IN  IF verdict = "ok"
           THEN /\ pc' = "sort"
                /\ sorted_step_indexes' = << >>
                /\ steps_remaining' = [i \in 1..Len(steps) |-> i]
           ELSE /\ pc' = verdict
                /\ UNCHANGED << sorted_step_indexes, steps_remaining >>
    /\ UNCHANGED << report_vars, context, targets, steps, dependencies, sorted_steps, exec_vars >>

\* A sort that takes the first remaining step when none is ready
SortStep_no_cycle_check ==
    /\ pc = "sort"
    /\ steps_remaining # << >>
    /\ LET ready == { c \in 1..Len(steps_remaining) :
                        would_be_ready_to_execute(steps[steps_remaining[c]], steps,
                                                  dependencies, sorted_step_indexes) }
           cur_index == IF ready = {} THEN 1 ELSE CHOOSE c \in ready : \A r \in ready : c <= r
       IN  /\ sorted_step_indexes' = Append(sorted_step_indexes, steps_remaining[cur_index])
           /\ steps_remaining' = RemoveAt(steps_remaining, cur_index)
           /\ pc' = "sort"
    /\ UNCHANGED << report_vars, context, targets, steps, dependencies, sorted_steps, exec_vars >>

\* calculator.rs 295-306: one iteration of 'loop_until_all_sorted
SortStep ==
    /\ pc = "sort"
    /\ steps_remaining # << >>
    /\ LET ready == { c \in 1..Len(steps_remaining) :
                        would_be_ready_to_execute(steps[steps_remaining[c]], steps,
                                                  dependencies, sorted_step_indexes) }
       IN  IF ready = {}
           THEN /\ pc' = "CircularDependencies"
                /\ UNCHANGED << sorted_step_indexes, steps_remaining >>
           ELSE LET cur_index == CHOOSE c \in ready : \A r \in ready : c <= r
                IN  /\ sorted_step_indexes' = Append(sorted_step_indexes, steps_remaining[cur_index])
                    /\ steps_remaining' = RemoveAt(steps_remaining, cur_index)
                    /\ pc' = "sort"
    /\ UNCHANGED << report_vars, context, targets, steps, dependencies, sorted_steps, exec_vars >>

\* calculator.rs 308-311: sort_mapping[sorted_step_indexes[i]] = i
sort_mapping(sorted) ==
    [k \in 1..Len(sorted) |->
        IF \E i \in 1..Len(sorted) : sorted[i] = k
        THEN CHOOSE i \in 1..Len(sorted) :
                sorted[i] = k /\ \A j \in (i + 1)..Len(sorted) : sorted[j] # k
        ELSE 0]

\* A sort_by_key that leaves the steps in their order of construction
sort_by_key_unsorted(stepList, mapping) == stepList

\* calculator.rs 314-319: the steps sorted by their sort_mapping key
sort_by_key(stepList, mapping) ==
    [i \in 1..Len(stepList) |-> stepList[CHOOSE k \in 1..Len(stepList) : mapping[k] = i]]

\* calculator.rs 308-321: return the steps in sorted order
SortFinish ==
    /\ pc = "sort"
    /\ steps_remaining = << >>
    /\ sorted_steps' = sort_by_key(steps, sort_mapping(sorted_step_indexes))
    /\ pc' = "sorted"
    /\ UNCHANGED << report_vars, context, targets, steps, dependencies, sorted_step_indexes,
                    steps_remaining, exec_vars >>

\* solve_for as a function of its arguments: the same passes, validation and
\* sort as the actions above, run to their end
RECURSIVE resolve_loop(_, _, _)
resolve_loop(stepList, deps, ctx) ==
    IF first_panic(1, stepList, deps, ctx) # "none"
    THEN [status |-> IF first_panic(1, stepList, deps, ctx) = "todo"
                     THEN "panic" ELSE "unwrap_panic",
          steps |-> stepList, dependencies |-> deps]
    ELSE IF Len(new_steps_from(1, stepList, deps, ctx)) = 0
    THEN [status |-> "ok", steps |-> stepList, dependencies |-> deps]
    ELSE resolve_loop(
            add_batch(new_steps_from(1, stepList, deps, ctx), stepList, deps, ctx).steps,
            add_batch(new_steps_from(1, stepList, deps, ctx), stepList, deps, ctx).dependencies,
            ctx)

RECURSIVE sort_loop(_, _, _, _)
sort_loop(stepList, deps, sorted, remaining) ==
    IF remaining = << >> THEN [status |-> "ok", sorted_step_indexes |-> sorted]
    ELSE LET ready == { c \in 1..Len(remaining) :
                          would_be_ready_to_execute(stepList[remaining[c]], stepList,
                                                    deps, sorted) }
         IN  IF ready = {}
             THEN [status |-> "CircularDependencies", sorted_step_indexes |-> sorted]
             ELSE sort_loop(stepList, deps,
                            Append(sorted, remaining[CHOOSE c \in ready : \A r \in ready : c <= r]),
                            RemoveAt(remaining, CHOOSE c \in ready : \A r \in ready : c <= r))

\* calculator.rs 267-321, given the outcome of the resolution loop
validate_and_sort(resolved) ==
    IF resolved.status # "ok" THEN [status |-> resolved.status, steps |-> << >>]
    ELSE IF check_dependencies(1, resolved.steps, resolved.dependencies) # "ok"
    THEN [status |-> check_dependencies(1, resolved.steps, resolved.dependencies),
          steps |-> << >>]
    ELSE LET order == sort_loop(resolved.steps, resolved.dependencies, << >>,
                                [i \in 1..Len(resolved.steps) |-> i])
         IN  IF order.status # "ok" THEN [status |-> order.status, steps |-> << >>]
             ELSE [status |-> "sorted",
                   steps |-> sort_by_key(resolved.steps,
                                         sort_mapping(order.sorted_step_indexes))]

\* calculator.rs 165-322
solve_for(tg, ctx) ==
    validate_and_sort(resolve_loop(add_batch(tg, << >>, << >>, ctx).steps,
                                   add_batch(tg, << >>, << >>, ctx).dependencies, ctx))

\* ------------------------------------------------------- product store
\* ReportingProducts: an IndexMap, modelled as the sequence of its entries
has_key(map, key) == \E k \in 1..Len(map) : map[k].id = key

get(map, key) == map[CHOOSE k \in 1..Len(map) : map[k].id = key].value

\* An insert that pushes a new entry whether or not the key is present
insert_push(map, key, value) == Append(map, [id |-> key, value |-> value])

\* IndexMap::insert: a present key keeps its position and takes the new value
insert(map, key, value) ==
    IF has_key(map, key)
    THEN [k \in 1..Len(map) |-> IF map[k].id = key THEN [id |-> key, value |-> value] ELSE map[k]]
    ELSE Append(map, [id |-> key, value |-> value])

\* An append that takes only the first entry of other
append_first_only(map, other) ==
    IF other = << >> THEN map ELSE insert(map, Head(other).id, Head(other).value)

\* IndexMap::append: insert every entry of other, in order
RECURSIVE append(_, _)
append(map, other) ==
    IF other = << >> THEN map
    ELSE append(insert(map, Head(other).id, Head(other).value), Tail(other))

\* ---------------------------------------------------------------- execute
\* The kinds a step returns products for, in the order it inserts them
returned_kinds(s, ctx) ==
    CASE s.impl = "A" -> <<Transactions>>
      [] s.impl = "B" -> <<BalancesAt>>
      [] s.impl = "C" -> ctx.returns
      [] s.impl = "C1" -> <<Transactions>>
      [] s.impl = "BalancesAtToBalancesBetween" -> <<BalancesBetween>>
      [] OTHER -> <<BalancesAt>>

\* What UpdateBalancesAt::execute reads: the Transactions of the parent step
\* it finds in the step list, then the opening BalancesAt named by the
\* parent's first dependency (nothing further when the parent has none)
UpdateBalancesAt_reads(s, stepList, deps) ==
    IF parent_step(s.name, stepList) = 0 THEN << >>
    ELSE LET parent == stepList[parent_step(s.name, stepList)]
             dependencies_for_parent == dependencies_for_step(deps, id(parent))
             transactions ==
                 Dependency(id(s), ReportingProductId(s.name, Transactions, parent.args))
         IN  IF Len(dependencies_for_parent) = 0 THEN << transactions >>
             ELSE << transactions,
                     Dependency(id(s),
                         IF dependencies_for_parent[1].dependency.kind = BalancesAt
                         THEN dependencies_for_parent[1].dependency
                         ELSE ReportingProductId(dependencies_for_parent[1].dependency.name,
                                                 BalancesAt, s.args)) >>

\* The dependency edges whose products the step's execute reads with
\* get_or_err: GenerateBalances reads dependencies_for_step(..)[0],
\* BalancesAtToBalancesBetween the balances at its two dates, the other steps
\* every edge of theirs
edges_read(s, stepList, deps) ==
    LET mine == dependencies_for_step(deps, id(s))
    IN  CASE s.impl = "GenerateBalances" -> SubSeq(mine, 1, 1)
          [] s.impl = "UpdateBalancesAt" -> UpdateBalancesAt_reads(s, stepList, deps)
          [] s.impl = "BalancesAtToBalancesBetween" ->
                [k \in 1..2 |-> Dependency(id(s), BalancesAtToBalancesBetween_requires(s)[k])]
          [] OTHER -> mine

\* balances.insert(account, quantity): the running balance is not read
update_balances_overwrite(balances, transactions) ==
    LET RECURSIVE over_postings(_, _)
        over_postings(b, postings) ==
            IF postings = << >> THEN b
            ELSE LET posting == Head(postings)
                 IN  over_postings([a \in DOMAIN b \cup {posting.account} |->
                                       IF a = posting.account THEN posting.quantity ELSE b[a]],
                                   Tail(postings))
        RECURSIVE over_transactions(_, _)
        over_transactions(b, txs) ==
            IF txs = << >> THEN b
            ELSE over_transactions(over_postings(b, Head(txs).postings), Tail(txs))
    IN  over_transactions(balances, transactions)

\* update_balances_from_transactions: every posting, transaction by
\* transaction, is added to the running balance of its account (0 when the
\* account has no balance yet)
update_balances_from_transactions(balances, transactions) ==
    LET RECURSIVE over_postings(_, _)
        over_postings(b, postings) ==
            IF postings = << >> THEN b
            ELSE LET posting == Head(postings)
                     running_balance ==
                         (IF posting.account \in DOMAIN b THEN b[posting.account] ELSE 0)
                             + posting.quantity
                 IN  over_postings([a \in DOMAIN b \cup {posting.account} |->
                                       IF a = posting.account THEN running_balance ELSE b[a]],
                                   Tail(postings))
        RECURSIVE over_transactions(_, _)
        over_transactions(b, txs) ==
            IF txs = << >> THEN b
            ELSE over_transactions(over_postings(b, Head(txs).postings), Tail(txs))
    IN  over_transactions(balances, transactions)

\* HashMap::new()
NoBalances == [a \in {} |-> 0]

\* The payload of a returned product: a Transactions product carries the
\* transaction list of the run; the BalancesAt product of GenerateBalances
\* carries the balances summed from the transactions it read, that of
\* UpdateBalancesAt the opening balances it read updated by the transactions
payload_transactions(kind, ctx) == IF kind = Transactions THEN ctx.transactions ELSE << >>

\* The filter left out: every transaction is applied
dated_whenever(transactions, d) == transactions

\* transactions.iter().filter(|t| t.transaction.dt.date() <= date)
dated_on_or_before(transactions, d) == SelectSeq(transactions, LAMBDA t : t.dt <= d)

\* balances_end - balances_start, account by account of either
balances_between(balances_start, balances_end) ==
    [a \in DOMAIN balances_end \cup DOMAIN balances_start |->
        (IF a \in DOMAIN balances_end THEN balances_end[a] ELSE 0)
            - (IF a \in DOMAIN balances_start THEN balances_start[a] ELSE 0)]

\* The balances a registered step returns as its BalancesAt: those the
\* context gives it, none where it gives none
balances_of(ctx) == IF "balances" \in DOMAIN ctx THEN ctx.balances ELSE NoBalances

payload_balances(s, inputs, ctx) ==
    CASE s.impl = "GenerateBalances" ->
            update_balances_from_transactions(NoBalances, inputs[1].transactions)
      [] s.impl = "UpdateBalancesAt" ->
            update_balances_from_transactions(
                inputs[2].balances,
                dated_on_or_before(inputs[1].transactions, date(s.args)))
      [] s.impl = "BalancesAtToBalancesBetween" ->
            balances_between(inputs[1].balances, inputs[2].balances)
      [] OTHER -> balances_of(ctx)

\* The store position the adapter D stops at when it scans from the first
\* entry on
oldest_dependency(s, deps, store) ==
    LET step_dependencies == dependencies_for_step(deps, id(s))
        hits == { k \in 1..Len(store) :
                    \E d \in 1..Len(step_dependencies) :
                        step_dependencies[d].dependency = store[k].id }
    IN  IF hits = {} THEN 0 ELSE CHOOSE k \in hits : \A h \in hits : k <= h

\* The store position the adapter D stops at: products.map().iter().rev()
\* meets the entries from the one inserted last, and the scan stops at the
\* first that is one of the step's dependencies (0: none)
freshest_dependency(s, deps, store) ==
    LET step_dependencies == dependencies_for_step(deps, id(s))
        hits == { k \in 1..Len(store) :
                    \E d \in 1..Len(step_dependencies) :
                        step_dependencies[d].dependency = store[k].id }
    IN  IF hits = {} THEN 0 ELSE CHOOSE k \in hits : \A h \in hits : k >= h

\* execute of the adapter D: a clone of the product found, under the step's
\* own product id; panic when the store holds none of its dependencies
execute_adapter(s, deps, store) ==
    IF freshest_dependency(s, deps, store) = 0
    THEN [status |-> "Panic", products |-> << >>]
    ELSE [status |-> "Ok",
          products |-> << [id |-> ReportingProductId(s.name, BalancesAt, s.args),
                           value |-> store[freshest_dependency(s, deps, store)].value] >>]

\* execute of a well-behaved step: Err(DependencyNotAvailable) when a product
\* it reads is absent, else one product per returned kind whose value is
\* determined by the step and the values it read
execute(s, stepList, deps, store, ctx) ==
    LET reads == edges_read(s, stepList, deps)
    IN  IF s.impl = "D" THEN execute_adapter(s, deps, store)
        ELSE IF s.impl = "GenerateBalances" /\ Len(reads) = 0
        THEN [status |-> "Panic", products |-> << >>]
        ELSE IF \E k \in 1..Len(reads) : ~has_key(store, reads[k].dependency)
        THEN [status |-> "Err", products |-> << >>]
        ELSE IF s.impl = "UpdateBalancesAt" /\ Len(reads) <= 1
        THEN \* dependencies_for_step(..)[0] of a parent without dependencies
             [status |-> "Panic", products |-> << >>]
        ELSE LET inputs == [k \in 1..Len(reads) |-> get(store, reads[k].dependency)]
                 kinds == returned_kinds(s, ctx)
             IN  [status |-> "Ok",
                  products |-> [k \in 1..Len(kinds) |->
                                  [id |-> ReportingProductId(s.name, kinds[k], s.args),
                                   value |-> [by |-> s.impl, kind |-> kinds[k],
                                              inputs |-> inputs,
                                              transactions |->
                                                  payload_transactions(kinds[k], ctx),
                                              balances |-> payload_balances(s, inputs, ctx)]]]]

\* What a defective or failing step implementation returns instead
Faults == {"none", "Err", "bad_name", "bad_kind", "bad_args"}

OtherName(name) == IF name = "B" THEN "A" ELSE "B"

faulty(result, s, fault) ==
    IF fault = "none" \/ result.status # "Ok" THEN result
    ELSE IF fault = "Err" THEN [status |-> "Err", products |-> << >>]
    ELSE LET n == Len(result.products)
             last == result.products[n]
             bad == CASE fault = "bad_name" ->
                            ReportingProductId(OtherName(s.name), last.id.kind, last.id.args)
                      [] fault = "bad_kind" ->
                            ReportingProductId(last.id.name,
                                CHOOSE k \in ReportingProductKind : k \notin s.product_kinds,
                                last.id.args)
                      [] OTHER ->
                            ReportingProductId(last.id.name, last.id.kind, VoidArgs)
         IN  [status |-> "Ok",
              products |-> [result.products EXCEPT ![n] = [id |-> bad, value |-> last.value]]]

FaultApplies(s, fault) ==
    fault = "bad_kind" => s.product_kinds # ReportingProductKind

\* A check that does not compare the args
sanity_check_name_kind(new, s) ==
    \A k \in 1..Len(new) :
        /\ new[k].id.name = id(s).name
        /\ new[k].id.kind \in id(s).product_kinds

\* executor.rs 91-113: every returned product is consistent with the step's id
sanity_check(new, s) ==
    \A k \in 1..Len(new) :
        /\ new[k].id.name = id(s).name
        /\ new[k].id.kind \in id(s).product_kinds
        /\ new[k].id.args = id(s).args

\* ----------------------------------------------------------- execute_steps
solve_vars == << report_vars, context, targets, dependencies, sorted_step_indexes,
                sorted_steps >>

\* generate_report hands the sorted steps and the dependencies to
\* execute_steps; executor.rs 53-62
StartExecute ==
    /\ pc = "sorted"
    /\ steps' = sorted_steps
    /\ products' = << >>
    /\ handles' = [i \in 1..Len(steps) |-> "unspawned"]
    /\ results' = [i \in 1..Len(steps) |-> NoTask]
    /\ steps_done' = << >>
    /\ steps_remaining' = [i \in 1..Len(steps) |-> i]
    /\ new_products' = << >>
    /\ pc' = "spawn"
    /\ UNCHANGED solve_vars

\* The steps and dependencies are shared, immutable, by the executor's tasks
exec_const == << solve_vars, steps >>

\* A spawn that leaves the spawned steps in steps_remaining
SpawnReady_keep_remaining ==
    /\ pc = "spawn"
    /\ Len(steps_done) # Len(steps)
    /\ LET ready == { i \in 1..Len(steps) :
                        /\ \E c \in 1..Len(steps_remaining) : steps_remaining[c] = i
                        /\ would_be_ready_to_execute(steps[i], steps, dependencies, steps_done) }
       IN  /\ handles' = [i \in 1..Len(steps) |-> IF i \in ready THEN "spawned" ELSE handles[i]]
           /\ steps_remaining' = steps_remaining
    /\ pc' = "join"
    /\ UNCHANGED << exec_const, steps_done, results, new_products, products >>

\* executor.rs 64-81: spawn every remaining step that is ready to run
SpawnReady ==
    /\ pc = "spawn"
    /\ Len(steps_done) # Len(steps)
    /\ LET ready == { i \in 1..Len(steps) :
                        /\ \E c \in 1..Len(steps_remaining) : steps_remaining[c] = i
                        /\ would_be_ready_to_execute(steps[i], steps, dependencies, steps_done) }
       IN  /\ handles' = [i \in 1..Len(steps) |-> IF i \in ready THEN "spawned" ELSE handles[i]]
           /\ steps_remaining' = SelectSeq(steps_remaining, LAMBDA i : i \notin ready)
    /\ pc' = "join"
    /\ UNCHANGED << exec_const, steps_done, results, new_products, products >>

\* executor.rs 64, 119: every step is done; return the store
ReturnProducts ==
    /\ pc = "spawn"
    /\ Len(steps_done) = Len(steps)
    /\ pc' = "Ok"
    /\ UNCHANGED << exec_const, steps_remaining, exec_vars >>

Running == pc \in {"spawn", "join", "append"}

\* A spawned task takes the read lock (products.read().await) and computes
\* its result from the store; a waiting writer holds new readers back
TaskRead(i) ==
    /\ Running
    /\ pc # "append"
    /\ handles[i] = "spawned"
    /\ handles' = [handles EXCEPT ![i] = "reading"]
    /\ results' = [results EXCEPT ![i] = execute(steps[i], steps, dependencies, products, context)]
    /\ UNCHANGED << exec_const, pc, steps_remaining, steps_done, new_products, products >>

\* A task that cannot return while the executor waits for the write lock
TaskFinish_behind_writer(i) ==
    /\ Running
    /\ pc # "append"
    /\ handles[i] = "reading"
    /\ handles' = [handles EXCEPT ![i] = "finished"]
    /\ UNCHANGED << exec_const, pc, steps_remaining, steps_done, results, new_products,
                    products >>

\* The task returns, releasing the read lock
TaskFinish(i) ==
    /\ Running
    /\ handles[i] = "reading"
    /\ handles' = [handles EXCEPT ![i] = "finished"]
    /\ UNCHANGED << exec_const, pc, steps_remaining, steps_done, results, new_products,
                    products >>

\* Returning from execute_steps drops the JoinSet, which aborts its tasks
dropped(h) ==
    [i \in 1..Len(h) |-> IF h[i] \in {"joined", "unspawned"} THEN h[i] ELSE "aborted"]

\* A join that carries on after a step's error as if it had returned nothing
JoinNext_ignore_err(step_idx, fault) ==
    /\ pc = "join"
    /\ handles[step_idx] = "finished"
    /\ FaultApplies(steps[step_idx], fault)
    /\ LET result == faulty(results[step_idx], steps[step_idx], fault)
           joined == [handles EXCEPT ![step_idx] = "joined"]
       IN  /\ steps_done' = Append(steps_done, step_idx)
           /\ results' = [results EXCEPT ![step_idx] = result]
           /\ IF result.status # "Panic" /\ sanity_check(result.products, steps[step_idx])
              THEN /\ pc' = "append"
                   /\ new_products' = result.products
                   /\ handles' = joined
              ELSE /\ pc' = "panic"
                   /\ new_products' = << >>
                   /\ handles' = dropped(joined)
    /\ UNCHANGED << exec_const, steps_remaining, products >>

\* executor.rs 83-113: join_next yields a finished task; check its result.
\* The joined step may be a failing or defective implementation (fault).
JoinNext(step_idx, fault) ==
    /\ pc = "join"
    /\ handles[step_idx] = "finished"
    /\ FaultApplies(steps[step_idx], fault)
    /\ LET result == faulty(results[step_idx], steps[step_idx], fault)
           joined == [handles EXCEPT ![step_idx] = "joined"]
       IN  /\ steps_done' = Append(steps_done, step_idx)
           /\ results' = [results EXCEPT ![step_idx] = result]
           /\ IF result.status = "Ok" /\ sanity_check(result.products, steps[step_idx])
              THEN /\ pc' = "append"
                   /\ new_products' = result.products
                   /\ handles' = joined
              ELSE /\ pc' = IF result.status = "Err" THEN "ExecutionError" ELSE "panic"
                   /\ new_products' = << >>
                   /\ handles' = dropped(joined)
    /\ UNCHANGED << exec_const, steps_remaining, products >>

\* AppendProducts without the append: the joined step's products are dropped
AppendProducts_discard ==
    /\ pc = "append"
    /\ \A i \in 1..Len(steps) : handles[i] # "reading"
    /\ products' = products
    /\ new_products' = << >>
    /\ pc' = "spawn"
    /\ UNCHANGED << exec_const, steps_remaining, steps_done, handles, results >>

\* An append that does not wait for the tasks holding the read lock
AppendProducts_unlocked ==
    /\ pc = "append"
    /\ products' = append(products, new_products)
    /\ new_products' = << >>
    /\ pc' = "spawn"
    /\ UNCHANGED << exec_const, steps_remaining, steps_done, handles, results >>

\* executor.rs 116: append the new products under the write lock, which is
\* granted once no task holds the read lock
AppendProducts ==
    /\ pc = "append"
    /\ \A i \in 1..Len(steps) : handles[i] # "reading"
    /\ products' = append(products, new_products)
    /\ new_products' = << >>
    /\ pc' = "spawn"
    /\ UNCHANGED << exec_const, steps_remaining, steps_done, handles, results >>

Next ==
    \/ InitTargets
    \/ ResolvePass
    \/ Validate
    \/ SortStep
    \/ SortFinish
    \/ StartExecute
    \/ SpawnReady
    \/ ReturnProducts
    \/ \E i \in 1..Len(steps) : TaskRead(i)
    \/ \E i \in 1..Len(steps) : TaskFinish(i)
    \/ \E i \in 1..Len(steps), fault \in Faults : JoinNext(i, fault)
    \/ AppendProducts

Spec == Init /\ [][Next]_vars

\* The runs in which the program keeps running: solve_for is sequential code;
\* the executor's loop runs on until it returns; the runtime polls every
\* spawned task, whose execute takes the read lock when it is free (readers
\* queue behind a waiting writer) and returns
Fairness ==
    /\ WF_vars(InitTargets \/ ResolvePass \/ Validate \/ SortStep \/ SortFinish)
    /\ WF_vars(\/ StartExecute
               \/ SpawnReady
               \/ ReturnProducts
               \/ \E i \in 1..Len(steps), fault \in Faults : JoinNext(i, fault)
               \/ AppendProducts)
    /\ WF_vars(\E i \in 1..Len(steps) : TaskRead(i))
    /\ WF_vars(\E i \in 1..Len(steps) : TaskFinish(i))

\* The fair runs are taken over the contexts with the full registry of lookup
\* keys A, B, C, a step C that returns both its kinds, and at most one
\* requirement for each of A and B
ContextsFair ==
    { c \in Contexts : /\ c.step_lookup_fn = <<"A", "B", "C">>
                       /\ c.returns = <<Transactions, BalancesAt>>
                       /\ Len(c.requires["A"]) <= 1 }

InitFair ==
    /\ context \in ContextsFair
    /\ targets \in TargetLists
    /\ pc = "solve_for"
    /\ steps = << >>
    /\ dependencies = << >>
    /\ sorted_step_indexes = << >>
    /\ sorted_steps = << >>
    /\ steps_remaining = << >>
    /\ steps_done = << >>
    /\ handles = << >>
    /\ results = << >>
    /\ new_products = << >>
    /\ products = << >>
    /\ ReportIdle

SpecFair == InitFair /\ [][Next]_vars /\ Fairness

\* The runs whose targets may be built at VoidArgs: step A keeps any args it is
\* given (steps.rs 84-92), so a target A at VoidArgs asks for its requirements
\* at VoidArgs
ContextsLookup ==
    { c \in Contexts : /\ c.step_lookup_fn = <<"A", "B", "C">>
                       /\ c.hook = "none"
                       /\ c.returns = <<Transactions, BalancesAt>> }

TargetListsLookup ==
    { t \in SeqsUpTo({ from_args("A", VoidArgs), from_args("A", DateArgs),
                       from_args("B", DateArgs) }, MaxTargets) :
        t # << >> /\ NoRepeat(t) }

InitLookup ==
    /\ context \in ContextsLookup
    /\ targets \in TargetListsLookup
    /\ pc = "solve_for"
    /\ steps = << >>
    /\ dependencies = << >>
    /\ sorted_step_indexes = << >>
    /\ sorted_steps = << >>
    /\ steps_remaining = << >>
    /\ steps_done = << >>
    /\ handles = << >>
    /\ results = << >>
    /\ new_products = << >>
    /\ products = << >>
    /\ ReportIdle

SpecLookup == InitLookup /\ [][Next]_vars

\* The runs over a registry of two dynamic builders, registered in either
\* order.  A step A built at VoidArgs declares no dependency, so that a graph
\* can hold an A that GenerateBalances can start from beside an A that
\* UpdateBalancesAt can start from.
BuilderOrders ==
    { <<"GenerateBalances", "UpdateBalancesAt">>, <<"UpdateBalancesAt", "GenerateBalances">> }

ContextsBuilders ==
    [ step_lookup_fn : {<<"A", "B", "C">>},
      step_dynamic_builders : BuilderOrders,
      \* step B requests A's balances or nothing
      requires : { r \in [{"A", "B"} -> RequiresChoices] :
                     r["B"] \in { << >>, << <<"A", BalancesAt>> >> } },
      requires_void : { [i \in {"A", "B"} |-> << >>] },
      hook : {"none"},
      returns : {<<Transactions, BalancesAt>>},
      transactions : {TransactionsXY} ]

InitBuilders ==
    /\ context \in ContextsBuilders
    /\ targets \in TargetListsLookup
    /\ pc = "solve_for"
    /\ steps = << >>
    /\ dependencies = << >>
    /\ sorted_step_indexes = << >>
    /\ sorted_steps = << >>
    /\ steps_remaining = << >>
    /\ steps_done = << >>
    /\ handles = << >>
    /\ results = << >>
    /\ new_products = << >>
    /\ products = << >>
    /\ ReportIdle

SpecBuilders == InitBuilders /\ [][Next]_vars

\* The runs with the adapter D, which depends on the balances of B and of C
\* (in either order of declaration), of B alone, or on nothing; B depends on
\* C's balances or on nothing
ContextsAdapter ==
    [ step_lookup_fn : {<<"A", "B", "C", "D">>},
      step_dynamic_builders : {step_dynamic_builders},
      requires : { [i \in {"A", "B", "D"} |->
                      CASE i = "A" -> << >> [] i = "B" -> b [] OTHER -> d] :
                   b \in { << >>, << <<"C", BalancesAt>> >> },
                   d \in { << <<"B", BalancesAt>>, <<"C", BalancesAt>> >>,
                           << <<"C", BalancesAt>>, <<"B", BalancesAt>> >>,
                           << <<"B", BalancesAt>> >>,
                           << >> } },
      hook : {"none"},
      returns : ReturnChoices,
      transactions : {TransactionsXY} ]

TargetListsAdapter ==
    { t \in SeqsUpTo({ from_args(i, DateArgs) : i \in {"A", "B", "C", "D"} }, MaxTargets) :
        t # << >> /\ NoRepeat(t) }

InitAdapter ==
    /\ context \in ContextsAdapter
    /\ targets \in TargetListsAdapter
    /\ pc = "solve_for"
    /\ steps = << >>
    /\ dependencies = << >>
    /\ sorted_step_indexes = << >>
    /\ sorted_steps = << >>
    /\ steps_remaining = << >>
    /\ steps_done = << >>
    /\ handles = << >>
    /\ results = << >>
    /\ new_products = << >>
    /\ products = << >>
    /\ ReportIdle

SpecAdapter == InitAdapter /\ [][Next]_vars

\* The runs with intervals: step A, asked for an interval, requests B's
\* BalancesBetween over it or nothing; step B, which returns BalancesAt, is
\* registered or is only there as a target; the builders are registered as
\* register_dynamic_builders does.  No step of these runs has the name of a
\* Transactions step whose one dependency is a BalancesBetween, so no
\* UpdateBalancesBetween step is built.
Intervals ==
    UNION { { DateStartDateEndArgs(d, e) : e \in d..MaxDate } : d \in 1..MaxDate }

ContextsBetween ==
    [ step_lookup_fn : { <<"A">>, <<"A", "B">> },
      step_dynamic_builders : { <<"GenerateBalances", "UpdateBalancesBetween",
                                  "UpdateBalancesAt", "BalancesAtToBalancesBetween">> },
      requires : { [i \in {"A", "B"} |-> IF i = "A" THEN r ELSE << >>] :
                     r \in { << >>, << <<"B", BalancesBetween>> >> } },
      hook : {"none"},
      returns : {<<Transactions, BalancesAt>>},
      transactions : {TransactionsXY},
      balances : { [a \in {"X"} |-> 500] } ]

TargetListsBetween ==
    { t \in SeqsUpTo({ from_args("A", i) : i \in Intervals }
                       \cup { from_args("B", DateArgsAt(d)) : d \in Dates }, MaxTargets) :
        /\ t # << >>
        /\ NoRepeat(t)
        /\ t[1].impl = "A"
        /\ \A k \in 2..Len(t) : t[k].impl = "B" }

InitBetween ==
    /\ context \in ContextsBetween
    /\ targets \in TargetListsBetween
    /\ pc = "solve_for"
    /\ steps = << >>
    /\ dependencies = << >>
    /\ sorted_step_indexes = << >>
    /\ sorted_steps = << >>
    /\ steps_remaining = << >>
    /\ steps_done = << >>
    /\ handles = << >>
    /\ results = << >>
    /\ new_products = << >>
    /\ products = << >>
    /\ ReportIdle

SpecBetween == InitBetween /\ [][Next]_vars

\* The runs over dated transactions: step A returns up to MaxPostings
\* transactions of one posting each, dated on any date; it declares no
\* dependency, or depends on C's BalancesAt, which C returns as the opening
\* balances; B requests A's BalancesAt at some date, which GenerateBalances
\* serves in the first case and UpdateBalancesAt in the second
DatedTransactions ==
    { TransactionWithPostings(d, << [account |-> a, quantity |-> 500] >>) :
        d \in Dates, a \in Accounts }

DatedTransactionLists == SeqsUpTo(DatedTransactions, MaxPostings)

ContextsDated ==
    [ step_lookup_fn : { <<"A", "B", "C">> },
      step_dynamic_builders : { <<"GenerateBalances", "UpdateBalancesBetween",
                                  "UpdateBalancesAt", "BalancesAtToBalancesBetween">> },
      requires : { [i \in {"A", "B"} |-> IF i = "A" THEN r ELSE << <<"A", BalancesAt>> >>] :
                     r \in { << >>, << <<"C", BalancesAt>> >> } },
      hook : {"none"},
      returns : {<<Transactions, BalancesAt>>},
      transactions : DatedTransactionLists,
      balances : { [a \in {"X"} |-> 500] } ]

TargetListsDated ==
    { << from_args("A", args), from_args("B", DateArgsAt(d)) >> :
        args \in {VoidArgs, DateArgs}, d \in Dates }

InitDated ==
    /\ context \in ContextsDated
    /\ targets \in TargetListsDated
    /\ pc = "solve_for"
    /\ steps = << >>
    /\ dependencies = << >>
    /\ sorted_step_indexes = << >>
    /\ sorted_steps = << >>
    /\ steps_remaining = << >>
    /\ steps_done = << >>
    /\ handles = << >>
    /\ results = << >>
    /\ new_products = << >>
    /\ products = << >>
    /\ ReportIdle

SpecDated == InitDated /\ [][Next]_vars

\* The runs of the dynamic builder over varying transaction lists: A is the
\* only producer for its name, declares no dependency and returns the
\* transaction list; B requests A's balances
ContextsGenerateBalances ==
    [ step_lookup_fn : {<<"A", "B", "C">>},
      step_dynamic_builders : {step_dynamic_builders},
      requires : { [i \in {"A", "B"} |->
                      IF i = "A" THEN << >> ELSE << <<"A", BalancesAt>> >>] },
      hook : {"none"},
      returns : {<<Transactions, BalancesAt>>},
      transactions : TransactionLists ]

\* The targets of these runs: steps A and B, whose BalancesAt requests are
\* served by GenerateBalances
TargetListsGenerateBalances ==
    { t \in TargetLists : \A k \in 1..Len(t) : t[k].name \in {"A", "B"} }

InitGenerateBalances ==
    /\ context \in ContextsGenerateBalances
    /\ targets \in TargetListsGenerateBalances
    /\ pc = "solve_for"
    /\ steps = << >>
    /\ dependencies = << >>
    /\ sorted_step_indexes = << >>
    /\ sorted_steps = << >>
    /\ steps_remaining = << >>
    /\ steps_done = << >>
    /\ handles = << >>
    /\ results = << >>
    /\ new_products = << >>
    /\ products = << >>
    /\ ReportIdle

SpecGenerateBalances == InitGenerateBalances /\ [][Next]_vars

\* -------------------------------------------------------- the report's runs
InitReport ==
    /\ dynamic_report \in Reports
    /\ previous_report = dynamic_report
    /\ operation = Operation("new", NoId, 0)
    /\ returned = Done
    /\ invoked = << >>
    /\ context = << >>
    /\ targets = << >>
    /\ pc = "report"
    /\ steps = << >>
    /\ dependencies = << >>
    /\ sorted_step_indexes = << >>
    /\ sorted_steps = << >>
    /\ steps_remaining = << >>
    /\ steps_done = << >>
    /\ handles = << >>
    /\ results = << >>
    /\ new_products = << >>
    /\ products = << >>

engine_vars == << context, targets, pc, steps, dependencies, sorted_step_indexes,
                  sorted_steps, steps_remaining, steps_done, handles, results, new_products,
                  products >>

\* The report may be changed again: nothing has panicked, and the last
\* operation was not a lookup (which leaves the report as it found it)
Changeable ==
    /\ pc = "report"
    /\ returned.tag # "Panic"
    /\ operation.name \in {"new", "calculate", "auto_hide"}

\* report.calculate(): libdrcr's consumes the CalculatableDynamicReport and
\* returns a DynamicReport; src's calculates in place
Calculate ==
    /\ Changeable
    /\ dynamic_report.revision = "libdrcr"
          => dynamic_report.struct = "CalculatableDynamicReport"
    /\ LET result == IF dynamic_report.revision = "libdrcr" THEN calculate(dynamic_report)
                     ELSE DynamicReport_calculate(dynamic_report)
       IN  /\ dynamic_report' = IF result.tag = "Panic" THEN dynamic_report ELSE result.value
           /\ returned' = IF result.tag = "Panic" THEN Panic ELSE Done
           /\ invoked' = result.calls
    /\ previous_report' = dynamic_report
    /\ operation' = Operation("calculate", NoId, 0)
    /\ UNCHANGED engine_vars

\* report.auto_hide(), which may be called again on its own result (the
\* operation's index is then 1)
AutoHide ==
    /\ Changeable
    /\ dynamic_report.struct = "DynamicReport"
    /\ dynamic_report' = auto_hide(dynamic_report)
    /\ previous_report' = dynamic_report
    /\ operation' = Operation("auto_hide", NoId, IF operation.name = "auto_hide" THEN 1 ELSE 0)
    /\ returned' = Done
    /\ invoked' = << >>
    /\ UNCHANGED engine_vars

\* report.by_id(wanted)
ById(wanted) ==
    /\ Changeable
    /\ dynamic_report.revision = "libdrcr"
          => dynamic_report.struct = "CalculatableDynamicReport"
    /\ returned' = IF dynamic_report.revision = "libdrcr" THEN by_id(dynamic_report, wanted)
                   ELSE DynamicReport_by_id(dynamic_report, wanted)
    /\ operation' = Operation("by_id", wanted, 0)
    /\ previous_report' = dynamic_report
    /\ invoked' = << >>
    /\ UNCHANGED << dynamic_report, engine_vars >>

\* section.subtotal(&report) of the section at a place of the report
Subtotal(index) ==
    /\ Changeable
    /\ dynamic_report.revision = "libdrcr"
          => dynamic_report.struct = "CalculatableDynamicReport"
    /\ index \in 1..Len(dynamic_report.entries)
    /\ dynamic_report.entries[index].type \in {"Section", "CalculatableSection"}
    /\ returned' = IF dynamic_report.entries[index].type = "CalculatableSection"
                   THEN CalculatableSection_subtotal(dynamic_report.entries[index],
                                                     dynamic_report)
                   ELSE Section_subtotal(dynamic_report.entries[index], dynamic_report)
    /\ operation' = Operation("subtotal", NoId, index)
    /\ previous_report' = dynamic_report
    /\ invoked' = << >>
    /\ UNCHANGED << dynamic_report, engine_vars >>

NextReport ==
    \/ Calculate
    \/ AutoHide
    \/ \E wanted \in Ids : ById(wanted)
    \/ \E index \in 1..MaxNodes : Subtotal(index)

SpecReport == InitReport /\ [][NextReport]_vars

\* =================================================================== claims
Range(q) == { q[k] : k \in 1..Len(q) }

Executing == pc \in {"spawn", "join", "append", "Ok", "ExecutionError"} \/ (pc = "panic" /\ handles # << >>)

\* The steps whose returned products have been appended to the store: the
\* joined steps, but for the one whose result is being checked or was refused
Inserted ==
    { steps_done[k] : k \in 1..(Len(steps_done)
                                 - (IF pc \in {"append", "ExecutionError", "panic"} THEN 1 ELSE 0)) }

EdgesOf(s) == { k \in 1..Len(dependencies) : dependencies[k].step = id(s) }

\* C1: a step is spawned only when every dependency edge of it is matched
\* (name, args, kind in the kind-set) by a step that has completed and whose
\* returned products are all in the shared store.
C1_SpawnOnlyWhenSatisfied ==
    Executing =>
        \A i \in 1..Len(handles) :
            handles[i] # "unspawned" =>
                \A k \in EdgesOf(steps[i]) :
                    \E j \in Inserted :
                        /\ Produces(id(steps[j]), dependencies[k].dependency)
                        /\ \A r \in Range(results[j].products) : has_key(products, r.id)

\* C1 witness: a step with two dependency edges has been spawned
C1_Witness ==
    /\ Executing
    /\ \E i \in 1..Len(handles) :
          handles[i] # "unspawned" /\ Cardinality(EdgesOf(steps[i])) >= 2

\* i needs a product that only j (or a step with j's id) produces
NeedsOnly(stepList, deps, i, j) ==
    \E k \in 1..Len(deps) :
        /\ deps[k].step = id(stepList[i])
        /\ Produces(id(stepList[j]), deps[k].dependency)
        /\ \A m \in 1..Len(stepList) :
              Produces(id(stepList[m]), deps[k].dependency) => id(stepList[m]) = id(stepList[j])

RECURSIVE ReachableFrom(_, _, _)
ReachableFrom(S, stepList, deps) ==
    LET more == S \cup { j \in 1..Len(stepList) : \E i \in S : NeedsOnly(stepList, deps, i, j) }
    IN  IF more = S THEN S ELSE ReachableFrom(more, stepList, deps)

\* The steps i needs, directly or through other steps
Needed(stepList, deps, i) ==
    ReachableFrom({ m \in 1..Len(stepList) : NeedsOnly(stepList, deps, i, m) }, stepList, deps)

\* A dependency cycle among two or more steps
HasCycle(stepList, deps) ==
    \E i \in 1..Len(stepList) :
        \E j \in Needed(stepList, deps, i) \ {i} : i \in Needed(stepList, deps, j)

ResolutionEnded == pc \notin {"solve_for", "resolve"} /\ ~(pc = "panic" /\ handles = << >>)

NothingExecuted == handles = << >> /\ products = << >> /\ steps_done = << >>

AllEdgeStepsPresent == \A k \in 1..Len(dependencies) : has_step(steps, dependencies[k].step)

AllEdgesProduced == \A k \in 1..Len(dependencies) : has_producer(steps, dependencies[k].dependency)

CalculationErrors == {"UnknownStep", "NoStepForProduct", "CircularDependencies"}

RECURSIVE Grounded(_, _, _)
Grounded(S, stepList, deps) ==
    LET more == S \cup { i \in 1..Len(stepList) :
                            \A k \in 1..Len(deps) :
                                deps[k].step = id(stepList[i]) =>
                                    \E j \in S : Produces(id(stepList[j]), deps[k].dependency) }
    IN  IF more = S THEN S ELSE Grounded(more, stepList, deps)

WellFounded == Grounded({}, steps, dependencies) = 1..Len(steps)

\* Every dependency is satisfiable: by a step of the graph, a registered
\* lookup factory or a dynamic builder
Satisfiable ==
    \A k \in 1..Len(dependencies) :
        has_step_or_can_build(dependencies[k].dependency, steps, dependencies, context).tag # "None"

StoreKeys == { products[k].id : k \in 1..Len(products) }

\* The products the constructed steps return
StepProducts ==
    UNION { { ReportingProductId(steps[i].name, kind, steps[i].args) :
                kind \in Range(returned_kinds(steps[i], context)) } : i \in 1..Len(steps) }

ReturnsEveryKind ==
    \A i \in 1..Len(steps) : Range(returned_kinds(steps[i], context)) = steps[i].product_kinds

Count(q, x) == Cardinality({ k \in 1..Len(q) : q[k] = x })

\* C4: the list solve_for returns holds every resolved step exactly once,
\* and each dependency edge of each step is produced (name, args, kind in
\* the kind-set) by a step earlier in the list.
C4_SortedStepsLinearExtension ==
    pc = "sorted" =>
        /\ Len(sorted_steps) = Len(steps)
        /\ \A x \in Range(steps) \cup Range(sorted_steps) : Count(sorted_steps, x) = Count(steps, x)
        /\ \A i \in 1..Len(sorted_steps) :
              \A k \in EdgesOf(sorted_steps[i]) :
                  \E j \in 1..(i - 1) :
                      Produces(id(sorted_steps[j]), dependencies[k].dependency)

\* C4 witness: solve_for returned a list of three or more steps in an
\* order other than the order of construction
C4_Witness == pc = "sorted" /\ Len(sorted_steps) >= 3 /\ sorted_steps # steps

\* The store of a run that executes the steps one at a time in list order
RECURSIVE SequentialStore(_, _)
SequentialStore(k, store) ==
    IF k > Len(steps) THEN store
    ELSE SequentialStore(k + 1,
            append(store, execute(steps[k], steps, dependencies, store, context).products))

\* C5: in a graph without a "freshest dependency" adapter step, the final
\* store (its keys and the value under each key) is the same under every
\* order of step completions the executor allows: it is the store of the
\* one-at-a-time run in list order.
C5_FinalStoreIndependentOfOrder ==
    pc = "Ok" => Range(products) = Range(SequentialStore(1, << >>))

\* The ids of the products the joined steps returned
ReturnedIds ==
    UNION { { r.id : r \in Range(results[steps_done[k]].products) } : k \in 1..Len(steps_done) }

\* C6: the store never holds two entries under one ProductId, and after a
\* successful run it holds one entry for each distinct ProductId the steps
\* returned, whatever the order of completion.
C6_OneEntryPerProductId ==
    /\ \A a, b \in 1..Len(products) : products[a].id = products[b].id => a = b
    /\ pc = "Ok" => StoreKeys = ReturnedIds /\ Len(products) = Cardinality(ReturnedIds)

\* C6 witness: a successful run in which two steps returned the same ProductId
C6_Witness ==
    /\ pc = "Ok"
    /\ \E i, j \in 1..Len(steps) :
          /\ i # j
          /\ \E r \in Range(results[i].products), q \in Range(results[j].products) : r.id = q.id

Last(q) == q[Len(q)]

\* C7: when the step that is joined returned an error, execute_steps ends
\* with that error at once: the store is left as it was, every task is
\* dropped so that none starts or continues, and nothing happens after the
\* error (no append, no spawn, no store returned).
C7_ErrorEndsRun ==
    [][ /\ (steps_done' # steps_done /\ results'[Last(steps_done')].status = "Err")
            => /\ pc' = "ExecutionError"
               /\ products' = products
               /\ new_products' = << >>
               /\ \A i \in 1..Len(handles') : handles'[i] \in {"joined", "unspawned", "aborted"}
        /\ pc # "ExecutionError" ]_vars

\* C7 witness: the run ended with a step's error after other steps'
\* products were stored and while a step was yet to be spawned
C7_Witness ==
    /\ pc = "ExecutionError"
    /\ results[Last(steps_done)].status = "Err"
    /\ products # << >>
    /\ \E i \in 1..Len(handles) : handles[i] = "unspawned"
    /\ \E i \in 1..Len(handles) : handles[i] = "aborted"

Consistent(p, s) ==
    /\ p.id.name = s.name
    /\ p.id.kind \in s.product_kinds
    /\ p.id.args = s.args

\* C8: a returned product whose name, kind or args disagree with the step
\* that returned it is never in the store: every entry of the store was
\* put there by a step all of whose products agree with it, and a step that
\* returned a disagreeing product is the last one joined, the run has
\* panicked, and nothing of that step is set to be appended.
C8_InconsistentProductNeverInserted ==
    /\ \A j \in Inserted : \A r \in Range(results[j].products) : Consistent(r, steps[j])
    /\ \A e \in Range(products) :
          \E j \in Inserted : e \in Range(results[j].products)
    /\ \A k \in 1..Len(steps_done) :
          (/\ results[steps_done[k]].status = "Ok"
           /\ \E r \in Range(results[steps_done[k]].products) : ~Consistent(r, steps[steps_done[k]]))
              => /\ pc = "panic"
                 /\ k = Len(steps_done)
                 /\ new_products = << >>

\* C8 witness: the run panicked on a step that returned two products, one of
\* them with args other than the step's
C8_Witness ==
    /\ pc = "panic"
    /\ steps_done # << >>
    /\ LET new == results[Last(steps_done)].products
       IN  /\ Len(new) = 2
           /\ Consistent(new[1], steps[Last(steps_done)])
           /\ new[2].id.args # steps[Last(steps_done)].args
    /\ products # << >>

\* C9: once the resolution loop has reached its fixpoint, a dependency edge
\* whose product no step of the graph produces makes solve_for return
\* NoStepForProduct; nothing is sorted and no step is executed.
C9_NoStepForProduct ==
    (ResolutionEnded /\ ~AllEdgesProduced)
        => /\ pc \in {"validate", "NoStepForProduct"}
           /\ sorted_steps = << >>
           /\ NothingExecuted

\* C9 witness: solve_for returned NoStepForProduct for an edge that is not
\* the first of the graph
C9_Witness ==
    /\ pc = "NoStepForProduct"
    /\ has_producer(steps, dependencies[1].dependency)
    /\ ~AllEdgesProduced

\* C10: once solve_for has left the resolution loop or stopped, a
\* dependency edge whose step is not in the graph has made it return
\* UnknownStep.
C10_UnknownStepReturned ==
    (pc \notin {"solve_for", "resolve"} /\ ~AllEdgeStepsPresent) => pc = "UnknownStep"

\* The tasks whose execute has looked its products up in the store and has
\* not been joined yet (results holds what execute computed)
HasRead == { i \in 1..Len(handles) : handles[i] \in {"reading", "finished"} }

ProducersFor(N) == { i \in Range(context.step_lookup_fn) : ImplName[i] = N }

\* The only producer for name N is a step without dependency edges that
\* produces Transactions
OnlyTransactionsSource(N) ==
    /\ ProducersFor(N) # {}
    /\ \A i \in ProducersFor(N) :
          /\ ImplKinds[i] = {Transactions}
          /\ \A args \in ReportingStepArgs : requires(context, from_args(i, args)) = << >>

\* The positions of the postings of a transaction list
PostingPositions(transactions) ==
    UNION { { <<t, p>> : p \in 1..Len(transactions[t].postings) } :
            t \in 1..Len(transactions) }

RECURSIVE SumAt(_, _)
SumAt(positions, transactions) ==
    IF positions = {} THEN 0
    ELSE LET x == CHOOSE y \in positions : TRUE
         IN  transactions[x[1]].postings[x[2]].quantity + SumAt(positions \ {x}, transactions)

\* Each account with a posting, mapped to the sum of its posting quantities
SumByAccount(transactions) ==
    LET at == PostingPositions(transactions)
    IN  [a \in { transactions[x[1]].postings[x[2]].account : x \in at } |->
            SumAt({ x \in at : transactions[x[1]].postings[x[2]].account = a }, transactions)]

\* C12: when the only producer for name N is a step without dependency edges
\* producing Transactions, a requested N.BalancesAt is resolved by a
\* GenerateBalances step with exactly one edge, onto N's Transactions, and the
\* balances it emits map each account to the sum of its posting quantities.
C12_GenerateBalancesSumsPostings ==
    \A N \in {"A", "B", "C"} :
        OnlyTransactionsSource(N) =>
            /\ pc \notin {"solve_for", "resolve", "panic"} =>
                  \A k \in 1..Len(dependencies) :
                      LET request == dependencies[k].dependency
                          builder == NewStep("GenerateBalances", N, {BalancesAt}, request.args)
                      IN  (request.name = N /\ request.kind = BalancesAt) =>
                              /\ \E i \in 1..Len(steps) : steps[i] = builder
                              /\ \A i \in 1..Len(steps) :
                                    Produces(id(steps[i]), request) => steps[i] = builder
                              /\ dependencies_for_step(dependencies, id(builder))
                                    = << Dependency(id(builder),
                                            ReportingProductId(N, Transactions, request.args)) >>
            /\ \A k \in 1..Len(products) :
                  (products[k].id.name = N /\ products[k].id.kind = BalancesAt) =>
                      /\ products[k].value.by = "GenerateBalances"
                      /\ products[k].value.balances = SumByAccount(context.transactions)

\* C12 witness: the run over the postings [(X, +500), (Y, -500)] has emitted
\* the balances {X: 500, Y: -500} for the requested A.BalancesAt
C12_Witness ==
    /\ OnlyTransactionsSource("A")
    /\ pc = "Ok"
    /\ context.transactions = TransactionsXY
    /\ \E k \in 1..Len(products) :
          /\ products[k].id = ReportingProductId("A", BalancesAt, DateArgs)
          /\ products[k].value.by = "GenerateBalances"
          /\ DOMAIN products[k].value.balances = {"X", "Y"}
          /\ products[k].value.balances["X"] = 500
          /\ products[k].value.balances["Y"] = -500

\* C20 as claimed: once resolution has completed with a step A whose
\* after_init_graph makes every B step present depend on it (as
\* CalculateIncomeTax does with the AllTransactionsExceptEarningsToEquity
\* steps) and a B step in the graph, the graph holds the edge from that B step
\* onto A's product of B's kind and args, whichever step was added first.
C20_HookEdgeForEveryAggregate ==
    (ResolutionEnded /\ context.hook = "each_present") =>
        \A i, j \in 1..Len(steps) :
            (steps[i].impl = "A" /\ steps[j].impl = "B") =>
                \E k \in 1..Len(dependencies) :
                    dependencies[k] = Dependency(id(steps[j]),
                                          ReportingProductId(steps[i].name, BalancesAt,
                                                             steps[j].args))

\* ---------------------------------------------------------------- C13
\* An entry that is still to be calculated lies somewhere in the entries
RECURSIVE HasCalculatable(_)
HasCalculatable(entries) ==
    \E k \in 1..Len(entries) :
        \/ entries[k].type \in {"CalculatedRow", "CalculatableSection"}
        \/ HasCalculatable(entries[k].entries)

\* The entries after are the entries before, place by place and at every
\* depth, with a LiteralRow carrying the formula's id where a CalculatedRow
\* was and a Section where a section was
RECURSIVE CalculatedFrom(_, _)
CalculatedFrom(before, after) ==
    /\ Len(after) = Len(before)
    /\ \A k \in 1..Len(before) :
          CASE before[k].type = "CalculatedRow" ->
                    /\ after[k].type = "LiteralRow"
                    /\ after[k].id = before[k].calculate_fn.id
            [] before[k].type \in {"CalculatableSection", "Section"} ->
                    /\ after[k].type = "Section"
                    /\ after[k].id = before[k].id
                    /\ after[k].auto_hide = before[k].auto_hide
                    /\ CalculatedFrom(before[k].entries, after[k].entries)
            [] OTHER -> after[k] = before[k]

\* C13: after calculate() has returned, no CalculatedRow and no
\* CalculatableSection remains at any depth of the report, and every
\* CalculatedRow has been replaced where it stood by a LiteralRow, the other
\* entries staying as they were
C13_NoCalculatedRowRemains ==
    (operation.name = "calculate" /\ returned.tag = "Done")
        => /\ ~HasCalculatable(dynamic_report.entries)
           /\ CalculatedFrom(previous_report.entries, dynamic_report.entries)

\* calculate() has returned on a report holding a CalculatedRow inside a
\* section
C13_Witness ==
    /\ operation.name = "calculate"
    /\ returned.tag = "Done"
    /\ \E k \in 1..Len(previous_report.entries) :
          /\ previous_report.entries[k].type \in {"CalculatableSection", "Section"}
          /\ \E j \in 1..Len(previous_report.entries[k].entries) :
                /\ previous_report.entries[k].entries[j].type = "CalculatedRow"
                /\ dynamic_report.entries[k].entries[j].type = "LiteralRow"

\* ---------------------------------------------------------------- C14
\* The LiteralRows among the entries and, at any depth, in the sections
\* among them
RECURSIVE LiteralRowsOf(_)
LiteralRowsOf(entries) ==
    IF entries = << >> THEN << >>
    ELSE (IF Head(entries).type = "LiteralRow" THEN << Head(entries) >>
          ELSE LiteralRowsOf(Head(entries).entries))
         \o LiteralRowsOf(Tail(entries))

\* The sum of the rows' values in one column
RECURSIVE SumColumn(_, _)
SumColumn(rows, c) ==
    IF rows = << >> THEN 0
    ELSE (IF c <= Len(Head(rows).quantity) THEN Head(rows).quantity[c] ELSE 0)
         + SumColumn(Tail(rows), c)

\* The section whose subtotal was asked for
SubtotalSection == dynamic_report.entries[operation.index]

\* C14: the subtotal a section returns is, for every column of the report,
\* the sum of that column over all LiteralRows below the section at any
\* depth; Spacers and CalculatedRows not yet calculated add nothing
C14_SubtotalSumsLiteralRows ==
    (operation.name = "subtotal" /\ returned.tag = "Some")
        => returned.value =
              [c \in 1..Len(dynamic_report.columns) |->
                  SumColumn(LiteralRowsOf(SubtotalSection.entries), c)]

\* The subtotal of a section with the rows 10 and -3, a spacer or a pending
\* row, and a nested section with the row 5: 12 in the first column
C14_Witness ==
    /\ operation.name = "subtotal"
    /\ returned.tag = "Some"
    /\ Len(SubtotalSection.entries) = 4
    /\ SubtotalSection.entries[1].quantity = <<10, 1>>
    /\ SubtotalSection.entries[2].quantity = <<-3, 0>>
    /\ SubtotalSection.entries[3].type \in {"Spacer", "CalculatedRow"}
    /\ SubtotalSection.entries[4].type = "Section"
    /\ SubtotalSection.entries[4].entries = << LiteralRow(NoId, FALSE, <<5, 2>>) >>
    /\ returned.value = <<12, 3>>

\* ---------------------------------------------------------------- C15
\* A row with the auto-hide flag set and zero in every column
ZeroFlaggedRow(row) ==
    /\ row.type = "LiteralRow"
    /\ row.auto_hide
    /\ row.quantity = [c \in 1..Len(row.quantity) |-> 0]

\* The entries after are the entries before without the zero flagged rows
\* and without some of the sections, at every depth: a row is gone exactly
\* when it is a zero flagged row or lies in a section that is gone
RECURSIVE RowsHiddenFrom(_, _)
RowsHiddenFrom(before, after) ==
    IF before = << >> THEN after = << >>
    ELSE CASE ZeroFlaggedRow(Head(before)) -> RowsHiddenFrom(Tail(before), after)
           [] Head(before).type = "Section" ->
                \/ RowsHiddenFrom(Tail(before), after)
                \/ /\ after # << >>
                   /\ Head(after).type = "Section"
                   /\ Head(after).id = Head(before).id
                   /\ Head(after).auto_hide = Head(before).auto_hide
                   /\ RowsHiddenFrom(Head(before).entries, Head(after).entries)
                   /\ RowsHiddenFrom(Tail(before), Tail(after))
           [] OTHER ->
                /\ after # << >>
                /\ Head(after) = Head(before)
                /\ RowsHiddenFrom(Tail(before), Tail(after))

\* C15: auto_hide() removes a LiteralRow if and only if its auto-hide flag is
\* set and every column is zero, or it lies in a Section that is removed; a
\* row without the flag or with a non-zero column in a Section that stays is
\* kept where it was
C15_RowRemovedIffFlaggedAndZero ==
    operation.name = "auto_hide"
        => RowsHiddenFrom(previous_report.entries, dynamic_report.entries)

\* auto_hide() on a report with a zero flagged row, a flagged row with a
\* non-zero column and a zero row without the flag: only the first is gone
C15_Witness ==
    /\ operation.name = "auto_hide"
    /\ previous_report.entries = << LiteralRow(NoId, TRUE, <<0, 0>>),
                                    LiteralRow(NoId, TRUE, <<0, 1>>),
                                    LiteralRow(NoId, FALSE, <<0, 0>>) >>
    /\ dynamic_report.entries = << LiteralRow(NoId, TRUE, <<0, 1>>),
                                   LiteralRow(NoId, FALSE, <<0, 0>>) >>

\* ---------------------------------------------------------------- C16
\* An entry that is individually eligible for auto-hide: a spacer, a zero
\* flagged row, a flagged section holding none but eligible entries
RECURSIVE Eligible(_)
Eligible(entry) ==
    CASE entry.type = "Spacer" -> TRUE
      [] entry.type = "LiteralRow" -> ZeroFlaggedRow(entry)
      [] entry.type = "Section" ->
            /\ entry.auto_hide
            /\ \A k \in 1..Len(entry.entries) : Eligible(entry.entries[k])
      [] OTHER -> FALSE

\* A section that has the flag set and whose children left by auto-hiding
\* are all eligible: the children gone are the eligible rows and sections, so
\* these are the sections whose children were all eligible to begin with
TotallyEligible(section) ==
    /\ section.auto_hide
    /\ \A k \in 1..Len(section.entries) : Eligible(section.entries[k])

\* No section left at any depth has the flag set and none but eligible
\* children
RECURSIVE NoEligibleSectionLeft(_)
NoEligibleSectionLeft(entries) ==
    \A k \in 1..Len(entries) :
        entries[k].type = "Section"
            => /\ ~TotallyEligible(entries[k])
               /\ NoEligibleSectionLeft(entries[k].entries)

\* The entries after hold, in order and at every depth, the sections of the
\* entries before that are not flagged with none but eligible children, and
\* none of those that are
RECURSIVE SectionsHiddenFrom(_, _)
SectionsHiddenFrom(before, after) ==
    IF before = << >> THEN after = << >>
    ELSE CASE Head(before).type = "Section" ->
                IF TotallyEligible(Head(before))
                THEN SectionsHiddenFrom(Tail(before), after)
                ELSE /\ after # << >>
                     /\ Head(after).type = "Section"
                     /\ Head(after).id = Head(before).id
                     /\ Head(after).auto_hide = Head(before).auto_hide
                     /\ SectionsHiddenFrom(Head(before).entries, Head(after).entries)
                     /\ SectionsHiddenFrom(Tail(before), Tail(after))
           [] ZeroFlaggedRow(Head(before)) -> SectionsHiddenFrom(Tail(before), after)
           [] OTHER ->
                /\ after # << >>
                /\ Head(after).type = Head(before).type
                /\ SectionsHiddenFrom(Tail(before), Tail(after))

\* C16: auto_hide() removes a Section if and only if its auto-hide flag is
\* set and, once its children have been auto-hidden, the children left are
\* all eligible for auto-hide themselves
C16_SectionRemovedIffFlaggedAndAllEligible ==
    operation.name = "auto_hide"
        => /\ SectionsHiddenFrom(previous_report.entries, dynamic_report.entries)
           /\ NoEligibleSectionLeft(dynamic_report.entries)

\* auto_hide() has removed a flagged section that held a zero flagged row and
\* an empty flagged section
C16_Witness ==
    /\ operation.name = "auto_hide"
    /\ \E k \in 1..Len(previous_report.entries) :
          /\ previous_report.entries[k].type = "Section"
          /\ previous_report.entries[k].auto_hide
          /\ Len(previous_report.entries[k].entries) = 2
          /\ \E j \in 1..2 : previous_report.entries[k].entries[j].type = "Section"
          /\ \E j \in 1..2 : previous_report.entries[k].entries[j].type = "LiteralRow"
    /\ dynamic_report.entries = << >>

\* ---------------------------------------------------------------- C17
\* A row that is non-zero in some column
NonZeroRow(entry) ==
    /\ entry.type = "LiteralRow"
    /\ \E c \in 1..Len(entry.quantity) : entry.quantity[c] # 0

NotZeroFlaggedRow(entry) == ~ZeroFlaggedRow(entry)

IsLiteralRow(entry) == entry.type = "LiteralRow"

\* The flagged sections found at any depth that hold a non-zero row of their
\* own, in order, each with its id and its rows: all its rows, or those that
\* are not zero flagged rows
RECURSIVE SectionsWithNonZeroRow(_, _)
SectionsWithNonZeroRow(entries, all_rows) ==
    IF entries = << >> THEN << >>
    ELSE (IF Head(entries).type = "Section"
          THEN (IF /\ Head(entries).auto_hide
                   /\ \E k \in 1..Len(Head(entries).entries) :
                         NonZeroRow(Head(entries).entries[k])
                THEN << [id |-> Head(entries).id,
                         rows |-> IF all_rows
                                  THEN SelectSeq(Head(entries).entries, IsLiteralRow)
                                  ELSE SelectSeq(SelectSeq(Head(entries).entries, IsLiteralRow),
                                                 NotZeroFlaggedRow)] >>
                ELSE << >>)
               \o SectionsWithNonZeroRow(Head(entries).entries, all_rows)
          ELSE << >>)
         \o SectionsWithNonZeroRow(Tail(entries), all_rows)

\* C17: auto_hide() keeps every flagged Section that holds a row with a
\* non-zero column, with that row, and removes the Section's zero flagged
\* rows; no row with a non-zero column is lost with a Section
C17_SectionWithNonZeroRowKept ==
    operation.name = "auto_hide"
        => /\ SectionsWithNonZeroRow(dynamic_report.entries, TRUE)
                 = SectionsWithNonZeroRow(previous_report.entries, FALSE)
           /\ SelectSeq(LiteralRowsOf(dynamic_report.entries), NonZeroRow)
                 = SelectSeq(LiteralRowsOf(previous_report.entries), NonZeroRow)

\* auto_hide() on a flagged section with a zero flagged row and a flagged
\* row with a non-zero column: the section stays with the second row alone
C17_Witness ==
    /\ operation.name = "auto_hide"
    /\ \E k \in 1..Len(previous_report.entries) :
          /\ previous_report.entries[k] =
                Section(NoId, TRUE, << LiteralRow(NoId, TRUE, <<0, 0>>),
                                       LiteralRow(NoId, TRUE, <<0, 1>>) >>)
          /\ dynamic_report.entries[k] =
                Section(NoId, TRUE, << LiteralRow(NoId, TRUE, <<0, 1>>) >>)

\* ---------------------------------------------------------------- C18
\* The entries in depth-first pre-order: each entry, then the entries it
\* holds, then the entries after it
RECURSIVE PreOrder(_)
PreOrder(entries) ==
    IF entries = << >> THEN << >>
    ELSE << Head(entries) >> \o PreOrder(Head(entries).entries) \o PreOrder(Tail(entries))

\* The first row or section of the list with the id, or none
FirstWithId(list, wanted) ==
    LET carrying == { k \in 1..Len(list) :
                        /\ list[k].type \in {"CalculatableSection", "Section", "LiteralRow"}
                        /\ list[k].id = wanted }
    IN  IF carrying = {} THEN None
        ELSE Some(list[CHOOSE k \in carrying : \A j \in carrying : k <= j])

\* C18: by_id(id) returns the first row or section, in depth-first
\* pre-order, whose id is id, and none when no entry has that id, whatever
\* the report holds, Sections already calculated included
C18_ByIdFirstInPreOrder ==
    operation.name = "by_id"
        => returned = FirstWithId(PreOrder(dynamic_report.entries), operation.id)

\* ---------------------------------------------------------------- C19
\* C19: calculate() on a report of src that holds no CalculatedRow, as it is
\* after a calculate() that returned, leaves the report with the entries it
\* had: calculating twice gives what calculating once gave
C19_CalculateIdempotent ==
    [][ ( /\ operation'.name = "calculate"
          /\ dynamic_report.revision = "src"
          /\ \/ ~HasCalculatable(dynamic_report.entries)
             \/ operation.name = "calculate" /\ returned.tag = "Done" )
        => ( /\ returned'.tag = "Done"
             /\ dynamic_report' = dynamic_report ) ]_vars

\* calculate() has returned on a report of src with a section, a row in it
\* and no CalculatedRow
C19_Witness ==
    /\ operation.name = "calculate"
    /\ returned.tag = "Done"
    /\ previous_report.revision = "src"
    /\ ~HasCalculatable(previous_report.entries)
    /\ \E k \in 1..Len(previous_report.entries) :
          /\ previous_report.entries[k].type = "Section"
          /\ \E j \in 1..Len(previous_report.entries[k].entries) :
                previous_report.entries[k].entries[j].type = "LiteralRow"

\* ===================================================================== C21
\* An unresolved edge whose lookup factory's takes_args rejects the edge's args
UnresolvedEdges == { k \in 1..Len(dependencies) : ~has_producer(steps, dependencies[k].dependency) }

RejectedEdge(k) ==
    /\ k \in UnresolvedEdges
    /\ lookup_key(context, dependencies[k].dependency) # 0
    /\ ~takes_args(context.step_lookup_fn[lookup_key(context, dependencies[k].dependency)],
                   dependencies[k].dependency.args)

\* C21: a lookup factory instantiates a step for an unresolved edge only if its
\* takes_args predicate accepts the edge's args: no step built by a factory
\* during resolution has args the factory's predicate rejects, and resolution
\* never dies inside the constructor of a factory called on args its predicate
\* rejects.
C21_FactoryUsedOnlyIfTakesArgs ==
    /\ pc \in {"resolve", "validate"} =>
          \A k \in (Len(targets) + 1)..Len(steps) :
              steps[k].impl \in Impls => takes_args(steps[k].impl, steps[k].args)
    /\ ~(pc = "unwrap_panic" /\ \E k \in 1..Len(dependencies) : RejectedEdge(k))

\* ===================================================================== C22
\* Some registered lookup key has the product's name and lists its kind
LookupResolves(ctx, p) ==
    \E k \in 1..Len(ctx.step_lookup_fn) :
        ImplName[ctx.step_lookup_fn[k]] = p.name /\ p.kind \in ImplKinds[ctx.step_lookup_fn[k]]

\* The registration indexes of the builders able to build the product
AbleBuilders(ctx, p, stepList, deps) ==
    { b \in 1..Len(ctx.step_dynamic_builders) :
        can_build(ctx.step_dynamic_builders[b], p.name, p.kind, p.args, stepList, deps, ctx) }

\* The unresolved edges of a pass for which a step can be constructed, in the
\* order of the dependency list
ConstructibleEdges(ctx, stepList, deps) ==
    SelectSeq(deps, LAMBDA d :
        /\ ~has_producer(stepList, d.dependency)
        /\ \/ LookupResolves(ctx, d.dependency)
           \/ AbleBuilders(ctx, d.dependency, stepList, deps) # {})

\* The step added for an edge is the one the claim describes
BuiltAsClaimed(ctx, d, n, stepList, deps) ==
    /\ Produces(id(n), d.dependency)
    /\ IF LookupResolves(ctx, d.dependency)
       THEN \E k \in 1..Len(ctx.step_lookup_fn) :
                /\ n.impl = ctx.step_lookup_fn[k]
                /\ ImplName[n.impl] = d.dependency.name
                /\ d.dependency.kind \in ImplKinds[n.impl]
       ELSE \E b \in AbleBuilders(ctx, d.dependency, stepList, deps) :
                /\ n.impl = ctx.step_dynamic_builders[b]
                /\ \A earlier \in 1..(b - 1) :
                       earlier \notin AbleBuilders(ctx, d.dependency, stepList, deps)

\* C22: in a resolution pass that adds steps, exactly one step is added for
\* each unresolved edge that a lookup factory or a builder can serve, in the
\* order of the edges: a lookup factory's step whenever a registered key has
\* the product's name and kind, and otherwise the step of the first builder in
\* registration order whose can_build is true; no other step is added.
C22_LookupThenFirstAbleBuilder ==
    [][ (pc = "resolve" /\ pc' = "resolve") =>
            LET wanted == ConstructibleEdges(context, steps, dependencies)
                added == SubSeq(steps', Len(steps) + 1, Len(steps'))
            IN  /\ Len(added) = Len(wanted)
                /\ \A i \in 1..Len(wanted) :
                       BuiltAsClaimed(context, wanted[i], added[i], steps, dependencies)
      ]_vars

\* A pass has added the step of the first registered builder for a product
\* that both builders were able to build and no lookup factory serves, and
\* another pass has added a lookup factory's step
C22_Witness ==
    /\ pc = "resolve"
    /\ \E n \in 2..Len(steps) :
          LET p == ReportingProductId(steps[n].name, BalancesAt, steps[n].args)
              before == SubSeq(steps, 1, n - 1)
          IN  /\ steps[n].impl = context.step_dynamic_builders[1]
              /\ ~LookupResolves(context, p)
              /\ AbleBuilders(context, p, before, dependencies) = {1, 2}
    /\ \E n \in (Len(targets) + 1)..Len(steps) : steps[n].impl \in Impls

\* ===================================================================== C23
\* An edge that is unresolved before a pass and resolved after it
NewlyResolved(stepsBefore, stepsAfter, deps) ==
    \E k \in 1..Len(deps) :
        /\ ~has_producer(stepsBefore, deps[k].dependency)
        /\ has_producer(stepsAfter, deps[k].dependency)

\* The resolution loop is running
Resolving == pc \in {"solve_for", "resolve"}

\* C23: the resolution loop terminates, and it ends exactly at the first pass
\* that constructs no step: a pass after which the loop goes on has added at
\* least one step, under which an edge unresolved before the pass is resolved;
\* the pass that leaves the loop adds no step, and no unresolved edge of it
\* can be served by a lookup factory or a builder.
C23_ResolutionReachesFixpoint ==
    /\ [][ (pc = "resolve" /\ pc' = "resolve") =>
               /\ Len(steps') > Len(steps)
               /\ SubSeq(steps', 1, Len(steps)) = steps
               /\ NewlyResolved(steps, steps', dependencies)
         ]_vars
    /\ [][ (pc = "resolve" /\ pc' = "validate") =>
               /\ steps' = steps
               /\ dependencies' = dependencies
               /\ ConstructibleEdges(context, steps, dependencies) = << >>
         ]_vars
    /\ <>(~Resolving)

\* The loop has ended after at least two passes that added steps: the steps
\* added lie in two batches, the later of which serves an edge that the
\* earlier brought
C23_Witness ==
    /\ pc = "validate"
    /\ \E n \in (Len(targets) + 1)..Len(steps), m \in (Len(targets) + 1)..Len(steps) :
          /\ n < m
          /\ \E k \in 1..Len(dependencies) :
                /\ dependencies[k].step = id(steps[n])
                /\ Produces(id(steps[m]), dependencies[k].dependency)
                /\ ~has_producer(SubSeq(steps, 1, m - 1), dependencies[k].dependency)

\* ===================================================================== C24
\* An edge that init_graph of step n adds: one of its requires() for a
\* registered step, an edge onto its name's Transactions for a builder's step
InitEdge(ctx, n, e) ==
    /\ e.step = id(n)
    /\ IF n.impl \in Impls
       THEN e.dependency \in Range(requires(ctx, n))
       ELSE e.dependency.name = n.name /\ e.dependency.kind = Transactions

\* An edge that after_init_graph of step n adds when it is handed stepList
HookEdge(ctx, n, stepList, e) ==
    /\ n.impl = "A"
    /\ \/ /\ ctx.hook = "each_present"
          /\ \E j \in 1..Len(stepList) :
                /\ stepList[j].impl = "B"
                /\ e = Dependency(id(stepList[j]),
                                  ReportingProductId(n.name, BalancesAt, stepList[j].args))
       \/ /\ ctx.hook = "unconditional"
          /\ e = Dependency(id(from_args("B", n.args)),
                            ReportingProductId(n.name, Transactions, n.args))

\* What a batch (the steps from index first on) has done to the dependencies
BatchInitialised(ctx, first, stepsAfter, depsBefore, depsAfter) ==
    LET batch == { stepsAfter[i] : i \in first..Len(stepsAfter) }
        IsInit(e) == \E n \in batch : InitEdge(ctx, n, e)
        IsHook(e) == \E n \in batch : HookEdge(ctx, n, stepsAfter, e)
    IN  /\ SubSeq(depsAfter, 1, Len(depsBefore)) = depsBefore
        \* init_graph has run on each step of the batch
        /\ \A n \in batch :
              IF n.impl \in Impls
              THEN \A r \in Range(requires(ctx, n)) : Dependency(id(n), r) \in Range(depsAfter)
              ELSE \E e \in Range(depsAfter) : InitEdge(ctx, n, e)
        \* after_init_graph has run on each step of the batch, on the full list
        /\ \A n \in batch :
              \A e \in [step : { id(stepsAfter[j]) : j \in 1..Len(stepsAfter) }
                                   \cup { id(from_args("B", n.args)) },
                        dependency : { ReportingProductId(n.name, k, a) :
                                          k \in ReportingProductKind, a \in ReportingStepArgs }] :
                  HookEdge(ctx, n, stepsAfter, e) => e \in Range(depsAfter)
        \* nothing else has run, and every init_graph came before any hook
        /\ \A k \in (Len(depsBefore) + 1)..Len(depsAfter) :
              /\ IsInit(depsAfter[k]) \/ IsHook(depsAfter[k])
              /\ IsInit(depsAfter[k]) =>
                    \A h \in (Len(depsBefore) + 1)..(k - 1) : IsInit(depsAfter[h])

\* C24: in every batch (the targets, then the new steps of each pass)
\* init_graph has been invoked on each step of the batch and after_init_graph
\* on a step only after init_graph on every step of the batch, each
\* after_init_graph call being handed the full step list of that moment: the
\* edges the batch adds are the init_graph edges of its steps followed by the
\* hook edges of its steps computed over all steps present, those pushed later
\* in the same batch included.
C24_BatchInitThenHook ==
    [][ /\ (pc = "solve_for" /\ pc' = "resolve") =>
              BatchInitialised(context, 1, steps', << >>, dependencies')
        /\ (pc = "resolve" /\ pc' = "resolve") =>
              BatchInitialised(context, Len(steps) + 1, steps', dependencies, dependencies')
      ]_vars

\* The targets were [.., A, .., B, ..] with the each_present hook: A's hook ran
\* after B, pushed later in the same batch, was in the list, and gave B an edge
\* that B does not declare itself
C24_Witness ==
    /\ pc = "resolve"
    /\ context.hook = "each_present"
    /\ \E i, j \in 1..Len(targets) :
          /\ i < j
          /\ targets[i].impl = "A"
          /\ targets[j].impl = "B"
          /\ <<"A", BalancesAt>> \notin Range(context.requires["B"])
          /\ Dependency(id(targets[j]), ReportingProductId("A", BalancesAt, targets[j].args))
                \in Range(dependencies)

\* ===================================================================== C25
\* The step joined last
LastJoined == steps_done[Len(steps_done)]

\* execute_steps has returned Ok: every step has been joined, each with Ok
ReturnedOk ==
    /\ pc = "Ok"
    /\ Len(steps_done) = Len(steps)
    /\ \A i \in 1..Len(steps) : results[i].status = "Ok"

\* execute_steps has returned the error of the first failed step it joined
ReturnedErr ==
    /\ pc = "ExecutionError"
    /\ results[LastJoined].status = "Err"
    /\ \A k \in 1..(Len(steps_done) - 1) : results[steps_done[k]].status = "Ok"

\* execute_steps has panicked on the step it joined last, whose task panicked
\* or returned products that are not those of the step
PanickedOnJoin ==
    /\ pc = "panic"
    /\ steps_done # << >>
    /\ \/ results[LastJoined].status = "Panic"
       \/ \E k \in 1..Len(results[LastJoined].products) :
             ~Produces(id(steps[LastJoined]), results[LastJoined].products[k].id)

\* C25: once the graph is sorted (so acyclic) and with every execute
\* returning, execute_steps comes to an end: it returns Ok once every step has
\* completed, or Err at the first failed step it joins (or panics on joining a
\* step that panicked or returned products not its own); it never stalls with
\* steps remaining, and the wait for the write lock always ends, whatever
\* tasks hold the read lock when it begins.
C25_ExecuteStepsReturns ==
    /\ (pc = "sorted") ~> (ReturnedOk \/ ReturnedErr \/ PanickedOnJoin)
    /\ (pc = "append") ~> (pc # "append")
    /\ [](pc \in {"Ok", "ExecutionError"} => (ReturnedOk \/ ReturnedErr))

\* The executor awaits the write lock while two tasks hold the read lock
C25_Witness ==
    /\ pc = "append"
    /\ \E i, j \in 1..Len(steps) : i # j /\ handles[i] = "reading" /\ handles[j] = "reading"

\* ===================================================================== C26
\* The step whose products await the write lock, if any
PendingStep == IF pc = "append" THEN {LastJoined} ELSE {}

\* Every product a joined step returned has its entry in the store
WholeBatchStored(i) ==
    \A r \in Range(results[i].products) : has_key(products, r.id)

\* C26: the store changes only by the whole batch of one step's returned
\* products, inserted while no task holds the read lock: in every state a
\* task can read the store in, each joined step has either all of its
\* returned products in the store or, while its batch awaits the write lock,
\* the store is as it was before the step was joined; and every change of the
\* store inserts every product of the pending batch and happens with no task
\* reading.
C26_ProductsInsertedAsOneBatch ==
    /\ [](Running =>
            \A k \in 1..Len(steps_done) :
                steps_done[k] \notin PendingStep => WholeBatchStored(steps_done[k]))
    /\ [][ products' # products =>
               \/ pc = "sorted"
               \/ /\ pc = "append"
                  /\ \A i \in 1..Len(steps) : handles[i] # "reading"
                  /\ new_products = results[LastJoined].products
                  /\ \A r \in Range(new_products) :
                        has_key(products', r.id) /\ get(products', r.id) = r.value
                  /\ \A k \in 1..Len(products') :
                        \/ \E r \in Range(new_products) : products'[k].id = r.id
                        \/ \E j \in 1..Len(products) : products[j] = products'[k]
         ]_vars

\* A batch of two products has just been inserted while another task was
\* spawned and had not yet read the store
C26_Witness ==
    /\ pc = "spawn"
    /\ steps_done # << >>
    /\ Len(results[LastJoined].products) = 2
    /\ WholeBatchStored(LastJoined)
    /\ \E i \in 1..Len(steps) : handles[i] = "spawned"

\* ===================================================================== C27
\* The adapter steps whose execute has returned a product
AdapterDone ==
    { i \in 1..Len(steps) :
        /\ Len(handles) = Len(steps)
        /\ steps[i].impl = "D"
        /\ handles[i] \in {"reading", "finished", "joined"}
        /\ results[i].status = "Ok" }

\* The product ids step i depends on, and those of them in the store
DependencyIds(i) ==
    { dependencies[k].dependency :
        k \in { e \in 1..Len(dependencies) : dependencies[e].step = id(steps[i]) } }

StoredDependencyIds(i) == { p \in DependencyIds(i) : has_key(products, p) }

\* The position of a stored product id in the store's insertion order
PositionOf(p) == CHOOSE k \in 1..Len(products) : products[k].id = p

\* The place in the order of completion of the first joined step that
\* produces p
FirstJoin(p) ==
    CHOOSE j \in 1..Len(steps_done) :
        /\ Produces(id(steps[steps_done[j]]), p)
        /\ \A h \in 1..(j - 1) : ~Produces(id(steps[steps_done[h]]), p)

\* C27: the adapter emits, under its own product id, a copy of whichever of
\* its dependency products stands last in the store's insertion order; after a
\* successful run that is the dependency product whose producing step
\* completed last, so the adapter's product, and with it the final store,
\* follows the order of completion of its dependencies.
C27_AdapterCopiesLastInserted ==
    \A i \in AdapterDone :
        /\ Len(results[i].products) = 1
        /\ StoredDependencyIds(i) # {}
        /\ \E p \in StoredDependencyIds(i) :
              /\ results[i].products[1].value = get(products, p)
              /\ \A q \in StoredDependencyIds(i) : PositionOf(q) <= PositionOf(p)
              /\ pc = "Ok" =>
                    /\ get(products, ReportingProductId("D", BalancesAt, steps[i].args))
                          = get(products, p)
                    /\ \A q \in StoredDependencyIds(i) : FirstJoin(q) <= FirstJoin(p)

\* A successful run in which the adapter's two dependency products come from
\* steps with no dependency of their own, hence no path between them, and the
\* adapter copied the product of the one that stands first in the sorted
\* steps: the two completed in the order opposite to that of the schedule
C27_Witness ==
    /\ pc = "Ok"
    /\ \E i \in AdapterDone, x, y \in 1..Len(steps) :
          /\ x < y
          /\ dependencies_for_step(dependencies, id(steps[x])) = << >>
          /\ dependencies_for_step(dependencies, id(steps[y])) = << >>
          /\ \E p, q \in StoredDependencyIds(i) :
                /\ p # q
                /\ Produces(id(steps[x]), p)
                /\ Produces(id(steps[y]), q)
                /\ get(products, p) # get(products, q)
                /\ results[i].products[1].value = get(products, p)

\* ===================================================================== C28
\* The registries that hold the same lookup keys as ctx: the HashMap's
\* iteration order is not part of what was registered
SameRegistrations(ctx) ==
    { [ctx EXCEPT !.step_lookup_fn = [k \in 1..Len(ctx.step_lookup_fn) |->
                                         ctx.step_lookup_fn[f[k]]]] :
        f \in Permutations(1..Len(ctx.step_lookup_fn)) }

\* solve_for has returned, or panicked
Solved == pc \in {"sorted", "UnknownStep", "NoStepForProduct", "CircularDependencies",
                  "unwrap_panic"} \/ (pc = "panic" /\ handles = << >>)

\* C28: graph construction is deterministic: whenever solve_for has ended,
\* every invocation with the same targets, the same registered lookup
\* factories and the same builders ends the same way, with the same steps in
\* the same order or the same error.
C28_SameTargetsAndRegistrySameSteps ==
    Solved =>
        \A other \in SameRegistrations(context) :
            solve_for(targets, other) = [status |-> pc, steps |-> sorted_steps]

\* ---------------------------------------------------------------- C29
\* The row the formula of the CalculatedRow at place j of the entries in
\* document order would build from a report that showed every entry before
\* place j as calculated
RowFromEarlier(before, after, j) ==
    literal_row_of(before[j].calculate_fn,
                   LET entry == FirstWithId(SubSeq(after, 1, j - 1), before[j].calculate_fn.arg)
                   IN  IF entry.tag = "Some" /\ entry.value.type = "LiteralRow"
                       THEN Some(entry.value.quantity)
                       ELSE Panic)

\* A CalculatedRow at place j that copies from the row a CalculatedRow
\* before it in document order builds
CopiesEarlierRow(before, j) ==
    /\ before[j].type = "CalculatedRow"
    /\ before[j].calculate_fn.fn = "quantity_for_id"
    /\ \E i \in 1..(j - 1) :
          /\ before[i].type = "CalculatedRow"
          /\ before[i].calculate_fn.id = before[j].calculate_fn.arg

\* C29: when calculate() invokes the formula of a CalculatedRow, the report
\* it passes shows every CalculatedRow before it in document order, the
\* earlier rows of the same section included, as the LiteralRow calculated
\* for it: a row copying from such an earlier row gets that row's value
C29_FormulaSeesEarlierRows ==
    (operation.name = "calculate" /\ returned.tag = "Done"
        /\ previous_report.struct = "CalculatableDynamicReport")
        => \A j \in 1..Len(PreOrder(previous_report.entries)) :
              CopiesEarlierRow(PreOrder(previous_report.entries), j)
                  => Some(PreOrder(dynamic_report.entries)[j]) =
                        RowFromEarlier(PreOrder(previous_report.entries),
                                       PreOrder(dynamic_report.entries), j)

\* ---------------------------------------------------------------- C30
\* The formulas of the CalculatedRows among the entries, at every depth, in
\* document order
RECURSIVE Formulas(_)
Formulas(entries) ==
    IF entries = << >> THEN << >>
    ELSE (IF Head(entries).type = "CalculatedRow" THEN << Head(entries).calculate_fn >>
          ELSE Formulas(Head(entries).entries))
         \o Formulas(Tail(entries))

IsPrefix(p, q) == Len(p) <= Len(q) /\ SubSeq(q, 1, Len(p)) = p

\* C30: one calculate() invokes the formula of each CalculatedRow of the
\* report exactly once, whatever the depth of the row: when it has returned,
\* the formulas invoked are those of the CalculatedRows in document order,
\* each as many times as there are rows with it, none for a row that was
\* already a LiteralRow; when a formula panicked, the formulas invoked up to
\* it are the first of these, each once
C30_EachFormulaInvokedOnce ==
    operation.name = "calculate"
        => /\ IsPrefix(invoked, Formulas(previous_report.entries))
           /\ returned.tag = "Done" => invoked = Formulas(previous_report.entries)
           /\ returned.tag = "Panic" => invoked # << >>

\* calculate() has returned on a report of libdrcr with a CalculatedRow at
\* the top level and another inside a section: two formulas were invoked
C30_Witness ==
    /\ operation.name = "calculate"
    /\ returned.tag = "Done"
    /\ previous_report.revision = "libdrcr"
    /\ Len(invoked) = 2
    /\ \E k \in 1..Len(previous_report.entries) :
          previous_report.entries[k].type = "CalculatedRow"
    /\ \E k \in 1..Len(previous_report.entries) :
          /\ previous_report.entries[k].type = "CalculatableSection"
          /\ \E j \in 1..Len(previous_report.entries[k].entries) :
                previous_report.entries[k].entries[j].type = "CalculatedRow"

\* calculate() has returned on a report of src calculated before, whose
\* rows are LiteralRows now: no formula was invoked
C30_CalculatedBefore ==
    /\ operation.name = "calculate"
    /\ returned.tag = "Done"
    /\ previous_report.revision = "src"
    /\ invoked = << >>
    /\ \E k \in 1..Len(previous_report.entries) :
          /\ previous_report.entries[k].type = "LiteralRow"
          /\ previous_report.entries[k].id = "t"

\* ---------------------------------------------------------------- C31
\* A step built by BalancesAtToBalancesBetween is among the steps
BuiltBetween(i) == steps[i].impl = "BalancesAtToBalancesBetween"

\* The product is there, or can be looked up or built, in the graph as it is
Obtainable(p) == has_step_or_can_build(p, steps, dependencies, context).tag # "None"

\* C31: BalancesAtToBalancesBetween accepts a BalancesBetween request only
\* if BalancesAt for the name is obtainable at both dates the step it builds
\* declares in requires(): every step it built has both of the products it
\* requires obtainable, so none of its edges stays unresolved
C31_BuiltOnlyIfBothEndpointsObtainable ==
    \A i \in 1..Len(steps) :
        BuiltBetween(i)
            => \A k \in 1..Len(requires(context, steps[i])) :
                  Obtainable(requires(context, steps[i])[k])

\* ------------------------------------------------ balances up to a date
\* The sum of the quantities posted to account a by the transactions dated
\* on or before d
PostedOnOrBefore(transactions, d, a) ==
    SumAt({ x \in PostingPositions(transactions) :
              /\ transactions[x[1]].dt <= d
              /\ transactions[x[1]].postings[x[2]].account = a }, transactions)

\* The accounts posted to by the transactions dated on or before d
AccountsOnOrBefore(transactions, d) ==
    { transactions[x[1]].postings[x[2]].account :
        x \in { y \in PostingPositions(transactions) : transactions[y[1]].dt <= d } }

\* The opening balances rolled forward to d
RolledForward(opening, transactions, d) ==
    [a \in DOMAIN opening \cup AccountsOnOrBefore(transactions, d) |->
        (IF a \in DOMAIN opening THEN opening[a] ELSE 0)
            + PostedOnOrBefore(transactions, d, a)]

\* The dates with a product of the builder in the store
DatesEmittedBy(builder) ==
    { d \in Dates : \E k \in 1..Len(products) :
        /\ products[k].value.by = builder
        /\ products[k].id = ReportingProductId("A", BalancesAt, DateArgsAt(d)) }

\* C32: the BalancesAt that an UpdateBalancesAt step for date D emits maps
\* each account to its opening balance (the BalancesAt the parent step
\* depends on) plus the quantities posted to it by those transactions of the
\* parent step that are dated on or before D, and holds no other account.
C32_UpdateBalancesAtRollsForwardToDate ==
    \A k \in 1..Len(products) :
        (products[k].value.by = "UpdateBalancesAt" /\ is_DateArgs(products[k].id.args)) =>
            products[k].value.balances =
                RolledForward(balances_of(context), context.transactions,
                              date(products[k].id.args))

\* C32 witness: an UpdateBalancesAt step for day 1 has emitted its balances
\* from the opening balance {X: 500} and a parent step whose transactions are
\* one dated day 1 and one dated day 2, both posting to X
C32_Witness ==
    /\ pc = "Ok"
    /\ 1 \in DatesEmittedBy("UpdateBalancesAt")
    /\ balances_of(context) = [a \in {"X"} |-> 500]
    /\ Len(context.transactions) = 2
    /\ context.transactions[1].dt = 2
    /\ context.transactions[2].dt = 1
    /\ \A t \in 1..2 : context.transactions[t].postings[1].account = "X"

\* C37 as claimed: the BalancesAt that a GenerateBalances step for date D
\* emits maps each account to the sum of the quantities posted to it by
\* those transactions of its Transactions dependency dated on or before D.
C37_GenerateBalancesSumsUpToDate ==
    \A k \in 1..Len(products) :
        (products[k].value.by = "GenerateBalances" /\ is_DateArgs(products[k].id.args)) =>
            products[k].value.balances =
                RolledForward(NoBalances, context.transactions, date(products[k].id.args))

\* ------------------------------------------------- what auto_hide leaves
\* Every column of the row is zero
AllZero(row) == \A c \in DOMAIN row.quantity : row.quantity[c] = 0

\* The entries auto_hide may take out of a list itself: a Section, and a
\* row with the flag set that is zero in every column
MayGo(e) ==
    \/ e.type = "Section"
    \/ e.type = "LiteralRow" /\ e.auto_hide /\ AllZero(e)

\* after is before with entries that may go left out: the entries kept are
\* in the order they had, a row, Spacer or pending row kept is unchanged, a
\* Section kept is unchanged but for its entries, of which the same holds
RECURSIVE KeptInOrder(_, _)
KeptInOrder(before, after) ==
    IF before = << >> THEN after = << >>
    ELSE LET b == Head(before)
         IN  \/ /\ MayGo(b)
                /\ KeptInOrder(Tail(before), after)
             \/ /\ after # << >>
                /\ IF b.type = "Section"
                   THEN /\ Head(after) = [b EXCEPT !.entries = Head(after).entries]
                        /\ KeptInOrder(b.entries, Head(after).entries)
                   ELSE Head(after) = b
                /\ KeptInOrder(Tail(before), Tail(after))

\* C33: auto_hide() takes out of a list of entries only Sections and flagged
\* rows that are zero in every column: a Spacer, an unflagged row and a row
\* with a non-zero column are in the result unless a Section above them was
\* taken out, and the entries that are left keep their values and the order
\* they had among themselves.
C33_SpacerGoesOnlyWithItsSection ==
    operation.name = "auto_hide" =>
        KeptInOrder(previous_report.entries, dynamic_report.entries)

\* C33 witness: auto_hide() of [flagged Section [Spacer], Spacer] has taken
\* the first Spacer out with its Section and left the second
C33_Witness ==
    /\ operation.name = "auto_hide"
    /\ previous_report.entries =
          << Section(NoId, TRUE, << Spacer >>), Spacer >>
    /\ dynamic_report.entries = << Spacer >>

\* A Spacer has stayed inside a Section that stayed
C33_SpacerKeptInSection ==
    /\ operation.name = "auto_hide"
    /\ previous_report.entries =
          << Section(NoId, FALSE, << Spacer, LiteralRow(NoId, TRUE, <<0, 0>>) >>) >>
    /\ dynamic_report.entries = << Section(NoId, FALSE, << Spacer >>) >>

\* A Section that is flagged and holds, at any depth, nothing but Spacers,
\* flagged all-zero rows and Sections of which the same holds
RECURSIVE Hideable(_)
Hideable(e) ==
    /\ e.type = "Section"
    /\ e.auto_hide
    /\ \A k \in 1..Len(e.entries) :
          LET c == e.entries[k]
          IN  \/ c.type = "Spacer"
              \/ c.type = "LiteralRow" /\ c.auto_hide /\ AllZero(c)
              \/ Hideable(c)

\* No flagged all-zero row and no hideable Section at any depth
RECURSIVE NothingToHide(_)
NothingToHide(entries) ==
    \A k \in 1..Len(entries) :
        LET e == entries[k]
        IN  /\ ~(e.type = "LiteralRow" /\ e.auto_hide /\ AllZero(e))
            /\ ~Hideable(e)
            /\ e.type = "Section" => NothingToHide(e.entries)

\* C40: after auto_hide() the report holds, at any depth, no flagged row
\* that is zero in every column and no flagged Section made of nothing but
\* Spacers, such rows and such Sections; an auto_hide() applied to the
\* result of an auto_hide() has left the report as it was.
C40_AutoHideIdempotent ==
    operation.name = "auto_hide" =>
        /\ NothingToHide(dynamic_report.entries)
        /\ operation.index = 1 => dynamic_report = previous_report

\* C40 witness: a second auto_hide() has been applied to a report in which
\* an unflagged Section holds a Spacer and a flagged row with a non-zero
\* column
C40_Witness ==
    /\ operation.name = "auto_hide"
    /\ operation.index = 1
    /\ dynamic_report.entries =
          << Section(NoId, FALSE, << Spacer, LiteralRow(NoId, TRUE, <<0, 1>>) >>) >>

\* ------------------------------------------------- one step per StepId
\* C34 as claimed: once resolution has ended no two steps of the step list
\* have the same StepId (name, product kinds, args).
C34_NoTwoStepsWithSameId ==
    ResolutionEnded =>
        \A i, j \in 1..Len(steps) : id(steps[i]) = id(steps[j]) => i = j

\* ------------------------------------------------- each step run once
\* The step index occurs exactly once in the list
OccursOnce(q, i) == \E k \in 1..Len(q) : q[k] = i /\ \A j \in 1..Len(q) : q[j] = i => j = k

\* The tasks spawned and not yet joined
Outstanding == { i \in 1..Len(handles) : handles[i] \in {"spawned", "reading", "finished"} }

\* C35: execute_steps spawns no step a second time (a step that has a task,
\* or had one, is never spawned again), and when it returns Ok
\* steps_remaining is empty and steps_done holds the index of every step
\* exactly once.
C35_EachStepExecutedOnce ==
    [][/\ \A i \in 1..Len(handles) :
             (handles[i] # "unspawned" /\ i <= Len(handles'))
                 => (handles'[i] = "spawned" => handles[i] = "spawned")
       /\ pc' = "Ok" =>
             /\ steps_remaining' = << >>
             /\ Len(steps_done') = Len(steps')
             /\ \A i \in 1..Len(steps') : OccursOnce(steps_done', i)
             /\ \A i \in 1..Len(steps') : handles'[i] = "joined"]_vars

\* C35 witness: execute_steps has returned Ok for three steps, the second
\* of which was joined before the first
C35_Witness ==
    /\ pc = "Ok"
    /\ Len(steps) = 3
    /\ steps_remaining = << >>
    /\ steps_done = << 2, 1, 3 >>

\* C36: whenever execute_steps waits in handles.join_next() some spawned
\* task has not been joined yet, so that join_next never answers None.
C36_JoinNextNeverEmpty ==
    pc = "join" => Outstanding # {}

\* C36 witness: the second wait of a run, after the one step that was ready
\* at first has been joined, with one task outstanding and a step not yet
\* spawned
C36_Witness ==
    /\ pc = "join"
    /\ Len(steps_done) = 1
    /\ Len(steps_remaining) = 1
    /\ \E i \in Outstanding : Outstanding = {i}

\* ------------------------------------------------------ self-dependency
\* A step has an edge onto a product that it produces and no other step does
HasSelfDependency ==
    \E i \in 1..Len(steps) : NeedsOnly(steps, dependencies, i, i)

\* C38 as claimed (the runs in which solve_for panics set aside): whenever
\* the resolved graph holds a self-dependency, solve_for has returned
\* CircularDependencies and no step was executed.
C38_SelfDependencyIsCircularDependencies ==
    (pc \notin {"solve_for", "resolve", "validate", "sort", "panic"} /\ HasSelfDependency)
        => (pc = "CircularDependencies" /\ NothingExecuted)

\* C38 amended: a graph that holds a self-dependency is never sorted and
\* none of its steps is executed.  If it passes validation the sort ends
\* with CircularDependencies; otherwise solve_for has failed before the
\* sort (NoStepForProduct, or the panic for an edge whose step is absent).
C38_SelfDependencyNeverSorted ==
    HasSelfDependency =>
        /\ NothingExecuted
        /\ sorted_steps = << >>
        /\ pc \in {"solve_for", "resolve", "validate", "sort", "panic",
                   "NoStepForProduct", "CircularDependencies"}
        /\ (pc \notin {"solve_for", "resolve", "validate", "sort"}
                /\ AllEdgeStepsPresent /\ AllEdgesProduced)
              => pc = "CircularDependencies"
        /\ pc = "sort" => steps_remaining # << >>

\* C38 witness: the sort has ended with CircularDependencies on a graph
\* whose only loop is the edge of step A onto its own product
C38_Witness ==
    /\ pc = "CircularDependencies"
    /\ HasSelfDependency
    /\ ~HasCycle(steps, dependencies)
    /\ NothingExecuted

\* ------------------------------------------------- edges added once
\* C39: the edge list never holds two equal edges, and a step of the
\* engine, whatever edges it adds or adds again, leaves the edges that were
\* there where they were: the list before is a prefix of the list after.
C39_AddDependencyIdempotent ==
    [][/\ NoRepeat(dependencies')
       /\ IsPrefix(dependencies, dependencies')]_vars

\* The edge from B onto A's Transactions, which B's requires() declares and
\* A's after_init_graph adds again
EdgeAddedTwice ==
    Dependency(id(from_args("B", DateArgs)), ReportingProductId("A", Transactions, DateArgs))

\* C39 witness: B was initialised before A, whose after_init_graph added
\* B's edge onto A.Transactions a second time; the edge is there once, as
\* the first edge
C39_Witness ==
    /\ ResolutionEnded
    /\ context.hook = "unconditional"
    /\ context.requires["B"] = << <<"A", Transactions>> >>
    /\ targets = << from_args("B", DateArgs), from_args("A", DateArgs) >>
    /\ dependencies # << >>
    /\ dependencies[1] = EdgeAddedTwice
    /\ \A k \in 2..Len(dependencies) : dependencies[k] # EdgeAddedTwice

====
